---- MODULE Spec2Model ----
(***************************************************************************)
(* Guard AI of the Pixel Heist game                                        *)
(* (pygame_arcade_project/games/pixel_heist/logic/guard.py).               *)
(*                                                                         *)
(* Numbers.  The source computes in floating point; the model computes in  *)
(* exact integers on a grid fine enough for every constant of the source:  *)
(*   time       half-seconds      (2.0 s = 4, 3.0 s = 6, 10.0 s = 20)      *)
(*   length     quarter-pixels    (2 px = 8, 5 px = 20, 150 px = 600)      *)
(*   speed      half-pixels per second (1.5 = 3, 3.0 = 6), so that         *)
(*              velocity * dt * speed is a length in quarter-pixels        *)
(*   angle      millidegrees      (90 degrees = 90000)                     *)
(*   random()   draw / RandDen with draw in 0 .. RandDen-1                 *)
(* All entities live on the line y = 0 (the line of the patrol route       *)
(* [(0,0),(100,0)]), where length(), normalize() and atan2() are exact.    *)
(* Vectors keep both coordinates, as pygame.math.Vector2 does.             *)
(***************************************************************************)
EXTENDS Integers, Sequences, FiniteSets, TLC

VARIABLES
    guard,   \* the Guard object: one record field per attribute
    player,  \* the Player object as the guard reads it
    last,    \* what the most recent call was and how it ended
    thief,   \* the Player object of logic/player.py with its kinematics
    item,    \* a LootItem
    returned, \* the most recent call on the LootItem and what it returned
    game,    \* the Game object of main.py with its player, guards and loot
    loader,  \* the MapLoader object of logic/map_loader.py
    probe,   \* the most recent call of a function of logic/collision.py
    sentry,  \* a Guard object of main.py that is updated on its own
    intruder, \* a Player object of main.py that is updated on its own
    manager, \* the LootManager object of logic/loot_system.py
    ship     \* a Ship object of rocket_rumble/logic/ship.py

vars == <<guard, player, last, thief, item, returned, game, loader, probe, sentry, intruder,
          manager, ship>>

\* the map loader, the collision functions, the lone guard and player of
\* main.py, the loot manager and the ship
extras == <<loader, probe, sentry, intruder, manager, ship>>

\* the loot, which no guard or player update touches
lootVars == <<item, returned>>

\* the objects a guard's update does not touch
others == <<thief, lootVars, game, extras>>

(***************************************************************************)
(* Bounds of the model.                                                    *)
(***************************************************************************)
\* random.random() is drawn from {0, 1/RandDen, ..., (RandDen-1)/RandDen}
RandDen == 2
\* state_timer is only ever compared with 3.0 and 10.0: values above
\* TimerCap are indistinguishable to the code and are stored as TimerCap
TimerCap == 21
\* the frame times dt offered to update(), in half-seconds: none, 3 s
Dts == {0, 6}
\* headings random.uniform(0, 360) is drawn from, in degrees
SearchHeadings == {0, 180}
\* where the player may stand (x in quarter-pixels), how noisy, crouching or not
PlayerPoses ==
    { <<0, 0, FALSE>>, <<36, 0, TRUE>>, <<-24, 100, FALSE>>,
      <<600, 100, FALSE>>, <<612, 50, FALSE>> }

(***************************************************************************)
(* Constants of guard.py, in the units above.                              *)
(***************************************************************************)
patrol_wait_time == 4        \* 2.0 s
walk_speed == 3              \* 1.5
run_speed == 6               \* 3.0
view_distance == 600         \* 150 px
view_angle == 90000          \* 90 degrees
ArriveDist == 8              \* direction.length() < 2
InvestigateDist == 20        \* direction.length() < 5
SuspiciousTime == 6          \* state_timer > 3.0
SearchTime == 20             \* state_timer > 10.0
LookAmplitude == 45          \* math.sin(state_timer * 2) * 45
RectSize == 32               \* pygame.Surface((32, 32)), in pixels

GuardStates == {"PATROLLING", "SUSPICIOUS", "INVESTIGATING", "ALERTED", "SEARCHING"}

(***************************************************************************)
(* Vector2 and math helpers.                                               *)
(***************************************************************************)
Abs(n) == IF n < 0 THEN -n ELSE n

Sign(n) == IF n > 0 THEN 1 ELSE IF n < 0 THEN -1 ELSE 0

Min(a, b) == IF a < b THEN a ELSE b

Max(a, b) == IF a > b THEN a ELSE b

VSub(a, b) == <<a[1] - b[1], a[2] - b[2]>>

Zero2 == <<0, 0>>

RECURSIVE SqrtFrom(_, _)
SqrtFrom(n, r) == IF (r + 1) * (r + 1) > n THEN r ELSE SqrtFrom(n, r + 1)

\* Vector2.length(); exact for the axis-aligned vectors of the model
Length(v) ==
    IF v[2] = 0 THEN Abs(v[1])
    ELSE IF v[1] = 0 THEN Abs(v[2])
    ELSE SqrtFrom(v[1] * v[1] + v[2] * v[2], 0)

\* Vector2.normalize() raises ValueError on the zero vector
NormalizeRaises(v) == v = Zero2

\* Vector2.normalize(); exact for the axis-aligned vectors of the model
normalize(v) ==
    <<Sign(v[1]) * (Abs(v[1]) \div Length(v)), Sign(v[2]) * (Abs(v[2]) \div Length(v))>>

\* math.degrees(math.atan2(y, x)) in millidegrees, for axis-aligned (x, y);
\* atan2(0, 0) is 0
atan2_degrees(y, x) ==
    IF y = 0 THEN (IF x < 0 THEN 180000 ELSE 0)
    ELSE IF y > 0 THEN 90000 ELSE -90000

\* math.cos / math.sin of a heading in degrees, for the headings of the model
CosDeg(a) == IF a = 0 THEN 1 ELSE IF a = 180 THEN -1 ELSE 0

SinDeg(a) == IF a = 90 THEN 1 ELSE IF a = 270 THEN -1 ELSE 0

\* math.sin(k) * 1000 for k radians, k = state_timer * 2 with state_timer <= 3.0
SinMilli(k) ==
    CASE k = 0 -> 0
      [] k = 1 -> 841
      [] k = 2 -> 909
      [] k = 3 -> 141
      [] k = 4 -> -757
      [] k = 5 -> -959
      [] OTHER -> -279

\* int(): truncation toward zero of a coordinate in quarter-pixels, to pixels
IntPx(c) == Sign(c) * (Abs(c) \div 4)

(***************************************************************************)
(* alert_position is None or a reference to a Vector2.  alert() stores     *)
(* the very object player.position ("ref"); a Vector2 of its own is "own". *)
(***************************************************************************)
NoPos == [kind |-> "none", v |-> Zero2]

OwnPos(v) == [kind |-> "own", v |-> v]

PlayerRef == [kind |-> "ref", v |-> Zero2]

\* the value read through alert_position
PosValue(ap, p) == IF ap.kind = "ref" THEN p.position ELSE ap.v

\* "not self.alert_position": None is falsy, and so is a zero Vector2
Falsy(ap, p) == ap.kind = "none" \/ PosValue(ap, p) = Zero2

(***************************************************************************)
(* Guard.__init__                                                          *)
(***************************************************************************)
Route == <<<<0, 0>>, <<120, 0>>>>

\* __init__ whose default route is the origin instead of the spawn position
NewGuard_default_origin(x, y, patrol_points) ==
    [ position             |-> <<x, y>>,
      velocity             |-> Zero2,
      patrol_points        |-> IF patrol_points = <<>> THEN <<Zero2>> ELSE patrol_points,
      current_patrol_point |-> 0,
      wait_timer           |-> 0,
      current_speed        |-> walk_speed,
      state                |-> "PATROLLING",
      state_timer          |-> 0,
      suspicion_level      |-> 0,
      alert_position       |-> NoPos,
      view_direction       |-> 0,
      rect_center          |-> <<IntPx(x), IntPx(y)>> ]

\* patrol_points = <<>> stands for both None and []: "patrol_points or [(x, y)]"
NewGuard(x, y, patrol_points) ==
    [ position             |-> <<x, y>>,
      velocity             |-> Zero2,
      patrol_points        |-> IF patrol_points = <<>> THEN <<<<x, y>>>> ELSE patrol_points,
      current_patrol_point |-> 0,
      wait_timer           |-> 0,
      current_speed        |-> walk_speed,
      state                |-> "PATROLLING",
      state_timer          |-> 0,
      suspicion_level      |-> 0,
      alert_position       |-> NoPos,
      view_direction       |-> 0,
      rect_center          |-> <<IntPx(x), IntPx(y)>> ]

(***************************************************************************)
(* Obstacles: pygame rects in pixels, [left, top, width, height].          *)
(***************************************************************************)
\* the room of the model: a wall on either side of the patrol route
Walls ==
    { [left |-> -40, top |-> -20, width |-> 10, height |-> 40],
      [left |-> 50, top |-> -20, width |-> 10, height |-> 40] }

RectOf(center) ==
    [left |-> center[1] - RectSize \div 2, top |-> center[2] - RectSize \div 2,
     width |-> RectSize, height |-> RectSize]

\* pygame.Rect.colliderect: rects that only touch do not collide
colliderect(a, b) ==
    /\ a.left < b.left + b.width
    /\ b.left < a.left + a.width
    /\ a.top < b.top + b.height
    /\ b.top < a.top + a.height

spritecollide(center, walls) == {w \in walls : colliderect(RectOf(center), w)}

(***************************************************************************)
(* Guard.move                                                              *)
(***************************************************************************)
\* the position the step would lead to
Stepped(g, dt) ==
    <<g.position[1] + g.velocity[1] * dt * g.current_speed,
      g.position[2] + g.velocity[2] * dt * g.current_speed>>

Center(position) == <<IntPx(position[1]), IntPx(position[2])>>

\* "if walls: collisions = spritecollide(...); if collisions:"
collisions(g, dt, walls) == walls # {} /\ spritecollide(Center(Stepped(g, dt)), walls) # {}

\* move that stores the truncated position
move_truncates(g, dt, walls) ==
    IF collisions(g, dt, walls)
    THEN [g EXCEPT !.rect_center = Center(g.position), !.velocity = Zero2]
    ELSE [g EXCEPT !.position = <<4 * IntPx(Stepped(g, dt)[1]), 4 * IntPx(Stepped(g, dt)[2])>>,
                   !.rect_center = Center(Stepped(g, dt))]

move(g, dt, walls) ==
    IF collisions(g, dt, walls)
    THEN [g EXCEPT !.rect_center = Center(g.position), !.velocity = Zero2]
    ELSE [g EXCEPT !.position = Stepped(g, dt), !.rect_center = Center(Stepped(g, dt))]

(***************************************************************************)
(* The state handlers.                                                     *)
(***************************************************************************)
\* handle_patrol that forgets to turn to the next waypoint on arrival
handle_patrol_stuck(g, dt) ==
    IF g.wait_timer > 0
    THEN [g EXCEPT !.wait_timer = @ - dt, !.velocity = Zero2]
    ELSE LET direction == VSub(g.patrol_points[g.current_patrol_point + 1], g.position)
         IN  IF Length(direction) < ArriveDist
             THEN [g EXCEPT !.wait_timer = patrol_wait_time]
             ELSE [g EXCEPT !.velocity = normalize(direction),
                            !.view_direction = atan2_degrees(normalize(direction)[2],
                                                             normalize(direction)[1])]

\* handle_patrol that advances the waypoint index without the modulo
handle_patrol_unwrapped(g, dt) ==
    IF g.wait_timer > 0
    THEN [g EXCEPT !.wait_timer = @ - dt, !.velocity = Zero2]
    ELSE LET direction == VSub(g.patrol_points[(g.current_patrol_point % Len(g.patrol_points)) + 1],
                               g.position)
         IN  IF Length(direction) < ArriveDist
             THEN [g EXCEPT !.wait_timer = patrol_wait_time,
                            !.current_patrol_point = @ + 1]
             ELSE [g EXCEPT !.velocity = normalize(direction),
                            !.view_direction = atan2_degrees(normalize(direction)[2],
                                                             normalize(direction)[1])]

handle_patrol(g, dt) ==
    IF g.wait_timer > 0
    THEN [g EXCEPT !.wait_timer = @ - dt, !.velocity = Zero2]
    ELSE LET target == g.patrol_points[g.current_patrol_point + 1]
             direction == VSub(target, g.position)
         IN  IF Length(direction) < ArriveDist
             THEN [g EXCEPT !.wait_timer = patrol_wait_time,
                            !.current_patrol_point = (@ + 1) % Len(g.patrol_points)]
             ELSE [g EXCEPT !.velocity = normalize(direction),
                            !.view_direction = atan2_degrees(normalize(direction)[2],
                                                             normalize(direction)[1])]

\* handle_suspicious with ">=" for ">"
handle_suspicious_early(g, dt) ==
    IF g.state_timer >= SuspiciousTime
    THEN [g EXCEPT !.state = "PATROLLING", !.state_timer = 0]
    ELSE [g EXCEPT !.view_direction = SinMilli(g.state_timer) * LookAmplitude,
                   !.velocity = Zero2]

handle_suspicious(g, dt) ==
    IF g.state_timer > SuspiciousTime
    THEN [g EXCEPT !.state = "PATROLLING", !.state_timer = 0]
    ELSE [g EXCEPT !.view_direction = SinMilli(g.state_timer) * LookAmplitude,
                   !.velocity = Zero2]

handle_investigation(g, dt, p) ==
    IF Falsy(g.alert_position, p)
    THEN [g EXCEPT !.state = "PATROLLING"]
    ELSE LET direction == VSub(PosValue(g.alert_position, p), g.position)
         IN  IF Length(direction) < InvestigateDist
             THEN [g EXCEPT !.state = "SUSPICIOUS", !.state_timer = 0,
                            !.alert_position = NoPos]
             ELSE [g EXCEPT !.velocity = normalize(direction),
                            !.view_direction = atan2_degrees(direction[2], direction[1])]

\* handle_alert raises when the player stands exactly on the guard
handle_alert_raises(g, hasPlayer, p) ==
    hasPlayer /\ NormalizeRaises(VSub(p.position, g.position))

\* handle_alert that forgets to reset state_timer when the player is gone
handle_alert_no_reset(g, dt, hasPlayer, p) ==
    IF ~hasPlayer
    THEN [g EXCEPT !.state = "SEARCHING"]
    ELSE LET direction == VSub(p.position, g.position)
         IN  [g EXCEPT !.velocity = normalize(direction),
                       !.view_direction = atan2_degrees(direction[2], direction[1]),
                       !.current_speed = run_speed]

\* handle_alert that gives the chase up when the player is out of view distance
handle_alert_gives_up(g, dt, hasPlayer, p) ==
    IF ~hasPlayer \/ Length(VSub(p.position, g.position)) > view_distance
    THEN [g EXCEPT !.state = "SEARCHING", !.state_timer = 0]
    ELSE LET direction == VSub(p.position, g.position)
         IN  [g EXCEPT !.velocity = normalize(direction),
                       !.view_direction = atan2_degrees(direction[2], direction[1]),
                       !.current_speed = run_speed]

handle_alert(g, dt, hasPlayer, p) ==
    IF ~hasPlayer
    THEN [g EXCEPT !.state = "SEARCHING", !.state_timer = 0]
    ELSE LET direction == VSub(p.position, g.position)
         IN  [g EXCEPT !.velocity = normalize(direction),
                       !.view_direction = atan2_degrees(direction[2], direction[1]),
                       !.current_speed = run_speed]

\* handle_search with ">=" for ">"
handle_search_early(g, dt, rnd) ==
    IF g.state_timer >= SearchTime
    THEN [g EXCEPT !.state = "PATROLLING", !.state_timer = 0,
                   !.current_speed = walk_speed]
    ELSE IF rnd.turn
         THEN [g EXCEPT !.velocity = <<CosDeg(rnd.heading), SinDeg(rnd.heading)>>,
                        !.view_direction = rnd.heading * 1000]
         ELSE g

\* handle_search that returns to patrol at the speed of the chase
handle_search_keeps_speed(g, dt, rnd) ==
    IF g.state_timer > SearchTime
    THEN [g EXCEPT !.state = "PATROLLING", !.state_timer = 0]
    ELSE IF rnd.turn
         THEN [g EXCEPT !.velocity = <<CosDeg(rnd.heading), SinDeg(rnd.heading)>>,
                        !.view_direction = rnd.heading * 1000]
         ELSE g

\* rnd.turn: random.random() < 0.02; rnd.heading: random.uniform(0, 360)
handle_search(g, dt, rnd) ==
    IF g.state_timer > SearchTime
    THEN [g EXCEPT !.state = "PATROLLING", !.state_timer = 0,
                   !.current_speed = walk_speed]
    ELSE IF rnd.turn
         THEN [g EXCEPT !.velocity = <<CosDeg(rnd.heading), SinDeg(rnd.heading)>>,
                        !.view_direction = rnd.heading * 1000]
         ELSE g

(***************************************************************************)
(* Guard.alert and Guard.check_player_detection                            *)
(***************************************************************************)
\* alert that keeps the old alert_position
alert_keeps_position(g, position) ==
    [g EXCEPT !.state = "ALERTED",
              !.state_timer = 0,
              !.current_speed = run_speed,
              !.suspicion_level = 100]

alert(g, position) ==
    [g EXCEPT !.alert_position = position,
              !.state = "ALERTED",
              !.state_timer = 0,
              !.current_speed = run_speed,
              !.suspicion_level = 100]

\* angle_diff without abs()
angle_diff_signed(angle, view_direction) ==
    ((angle - view_direction + 180000) % 360000) - 180000

\* abs((angle - view_direction + 180) % 360 - 180), in millidegrees
angle_diff(angle, view_direction) ==
    Abs(((angle - view_direction + 180000) % 360000) - 180000)

\* detection_chance that is still positive at the edge of the view distance
detection_chance_edge(distance, p) ==
    [num |-> (view_distance + 1 - distance) * (100 + p.noise_level)
                 * (IF p.is_crouching THEN 1 ELSE 2),
     den |-> view_distance * 100 * 2]

\* detection_chance as the fraction num / den
detection_chance(distance, p) ==
    [num |-> (view_distance - distance) * (100 + p.noise_level)
                 * (IF p.is_crouching THEN 1 ELSE 2),
     den |-> view_distance * 100 * 2]

\* random.random() < detection_chance, for random.random() = draw / RandDen
RandomLess(draw, chance) == draw * chance.den < RandDen * chance.num

\* the value check_player_detection returns
detects(g, p, draw) ==
    LET to_player == VSub(p.position, g.position)
        distance == Length(to_player)
        angle == atan2_degrees(to_player[2], to_player[1])
    IN  /\ ~(distance > view_distance)
        /\ ~(angle_diff(angle, g.view_direction) > view_angle \div 2)
        /\ RandomLess(draw, detection_chance(distance, p))

\* the guard check_player_detection leaves behind
check_player_detection(g, p, draw) ==
    IF detects(g, p, draw) THEN alert(g, PlayerRef) ELSE g

(***************************************************************************)
(* Guard.update                                                            *)
(***************************************************************************)
\* self.state_timer += dt
TimerAdd(t, dt) == Min(t + dt, TimerCap)

Handled(g, dt, hasPlayer, p, rnd) ==
    CASE g.state = "PATROLLING" -> handle_patrol(g, dt)
      [] g.state = "SUSPICIOUS" -> handle_suspicious(g, dt)
      [] g.state = "INVESTIGATING" -> handle_investigation(g, dt, p)
      [] g.state = "ALERTED" -> handle_alert(g, dt, hasPlayer, p)
      [] g.state = "SEARCHING" -> handle_search(g, dt, rnd)

\* the call from the handler's result on: move, then the detection check
Finish(raised, timed, handled, moved, hasPlayer, p, rnd) ==
    [raised |-> raised, timed |-> timed, handled |-> handled, moved |-> moved,
     detected |-> ~raised /\ hasPlayer /\ detects(moved, p, rnd.draw),
     done |-> IF ~raised /\ hasPlayer
              THEN check_player_detection(moved, p, rnd.draw) ELSE moved]

\* whether the call raises, and the guard after "state_timer += dt", after the
\* handler, after move and at the end of the call.  An exception leaves the
\* guard as it was when it was raised.  (Each stage is bound as a value.)
update(g, dt, hasPlayer, p, walls, rnd) ==
    LET timed == [g EXCEPT !.state_timer = TimerAdd(@, dt)]
        raised == timed.state = "ALERTED" /\ handle_alert_raises(timed, hasPlayer, p)
    IN  CHOOSE result \in
            UNION { { Finish(raised, timed, handled, moved, hasPlayer, p, rnd) :
                        moved \in {IF raised THEN timed ELSE move(handled, dt, walls)} } :
                    handled \in {IF raised THEN timed
                                 ELSE Handled(timed, dt, hasPlayer, p, rnd)} } : TRUE

(***************************************************************************)
(* The Player of logic/player.py (the thief).  Its velocity is a           *)
(* displacement per tick.  Lengths are in 1/Grid pixels, where Grid is     *)
(* 20^MaxCoast: a velocity that starts on a whole pixel stays on the grid  *)
(* through MaxCoast multiplications by the friction 0.85 = 17/20, and      *)
(* update() is offered only while the product is on the grid or is cut     *)
(* back to the speed limit anyway.                                         *)
(***************************************************************************)
\* ticks of friction in a row the grid can represent exactly
MaxCoast == 3

RECURSIVE Pow(_, _)
Pow(b, e) == IF e = 0 THEN 1 ELSE b * Pow(b, e - 1)

Grid == Pow(20, MaxCoast)

\* constants of player.py
player_walk_speed == 2       \* 2.0 px per tick
player_run_speed == 4        \* 4.0
player_crouch_speed == 1     \* 1.0
FrictionNum == 17            \* friction 0.85 = 17 / 20
FrictionDen == 20
AccelDen == 10               \* direction * current_speed * 0.1
RatioNum == 8                \* collide_rect_ratio(0.8)
RatioDen == 10
PlayerRectSize == 32         \* pygame.Surface((32, 32)), in pixels
LootingNoise == 10           \* noise_level = 10 while looting
CrouchNoise == 5             \* speed * 5
RunNoise == 20               \* speed * 20
WalkNoise == 10              \* speed * 10
MaxNoise == 100              \* min(100, noise_level)

\* int(): truncation toward zero
TruncDiv(a, b) == Sign(a) * (Abs(a) \div b)

VAdd(a, b) == <<a[1] + b[1], a[2] + b[2]>>

\* Player.__init__(x, y), x and y in pixels
NewPlayer(x, y) ==
    [ position     |-> <<x * Grid, y * Grid>>,
      velocity     |-> Zero2,
      acceleration |-> Zero2,
      current_speed |-> player_walk_speed * Grid,
      state        |-> "IDLE",
      is_crouching |-> FALSE,
      is_running   |-> FALSE,
      is_looting   |-> FALSE,
      noise_level  |-> 0,
      rect_center  |-> <<x, y>>,
      collision_rect_center |-> <<x, y>> ]

\* Player.move(direction_x, direction_y)
player_move(t, direction_x, direction_y) ==
    LET speed == IF t.is_crouching THEN player_crouch_speed * Grid
                 ELSE IF t.is_running THEN player_run_speed * Grid
                 ELSE player_walk_speed * Grid
        moving == IF t.is_crouching THEN "CROUCHING"
                  ELSE IF t.is_running THEN "RUNNING" ELSE "WALKING"
    IN  [t EXCEPT !.current_speed = speed,
                  !.acceleration = <<(direction_x * speed) \div AccelDen,
                                     (direction_y * speed) \div AccelDen>>,
                  !.state = IF direction_x = 0 /\ direction_y = 0 THEN "IDLE" ELSE moving]

\* velocity += acceleration; velocity *= friction
Rubbed(t) ==
    LET v == VAdd(t.velocity, t.acceleration)
    IN  <<TruncDiv(v[1] * FrictionNum, FrictionDen), TruncDiv(v[2] * FrictionNum, FrictionDen)>>

\* Vector2.scale_to_length, for the axis-aligned vectors of the model
scale_to_length(v, l) == <<normalize(v)[1] * l, normalize(v)[2] * l>>

\* "if velocity.length() > speed_limit: velocity.scale_to_length(speed_limit)"
Limited(t) ==
    IF Length(Rubbed(t)) > t.current_speed
    THEN scale_to_length(Rubbed(t), t.current_speed) ELSE Rubbed(t)

\* the friction product is on the grid, or the speed limit cuts it back
OnGrid(t) ==
    LET v == VAdd(t.velocity, t.acceleration)
    IN  \/ (v[1] * FrictionNum) % FrictionDen = 0 /\ (v[2] * FrictionNum) % FrictionDen = 0
        \/ Length(v) * FrictionNum > t.current_speed * FrictionDen

\* (int(position.x), int(position.y)), in pixels
PlayerCenter(position) == <<TruncDiv(position[1], Grid), TruncDiv(position[2], Grid)>>

PlayerRect(center) ==
    [left |-> center[1] - PlayerRectSize \div 2, top |-> center[2] - PlayerRectSize \div 2,
     width |-> PlayerRectSize, height |-> PlayerRectSize]

\* pygame.Rect.inflate(x, y) with integer arguments
inflate(r, x, y) ==
    [left |-> r.left - TruncDiv(x, 2), top |-> r.top - TruncDiv(y, 2),
     width |-> r.width + x, height |-> r.height + y]

\* the rect collide_rect_ratio compares: inflate(width * ratio - width,
\* height * ratio - height), the float arguments truncated to integers
Scaled(r) ==
    inflate(r, TruncDiv(r.width * RatioNum - r.width * RatioDen, RatioDen),
               TruncDiv(r.height * RatioNum - r.height * RatioDen, RatioDen))

\* collide_rect_ratio that compares the rects at their full size
collide_rect_full(a, b) == colliderect(a, b)

\* pygame.sprite.collide_rect_ratio(0.8)
collide_rect_ratio(a, b) == colliderect(Scaled(a), Scaled(b))

\* update_noise_level, the noise level in 1/Grid units
update_noise_level(t) ==
    LET speed == Length(t.velocity)
        noise == IF t.is_looting THEN LootingNoise * Grid
                 ELSE IF t.is_crouching THEN speed * CrouchNoise
                 ELSE IF t.is_running THEN speed * RunNoise
                 ELSE speed * WalkNoise
    IN  [t EXCEPT !.noise_level = Max(0, Min(MaxNoise * Grid, noise))]

\* Player.toggle_crouch()
toggle_crouch(t) ==
    [t EXCEPT !.is_crouching = ~t.is_crouching,
              !.is_running = IF ~t.is_crouching THEN FALSE ELSE t.is_running]

\* Player.toggle_run()
toggle_run(t) ==
    [t EXCEPT !.is_running = ~t.is_running,
              !.is_crouching = IF ~t.is_running THEN FALSE ELSE t.is_crouching]

\* Player.start_looting()
start_looting(t) == [t EXCEPT !.is_looting = TRUE, !.state = "LOOTING", !.velocity = Zero2]

\* Player.stop_looting()
stop_looting(t) == [t EXCEPT !.is_looting = FALSE, !.state = "IDLE"]

\* Player.handle_collisions: the walls the moved player collides with
player_collisions(center, walls) ==
    {w \in walls : collide_rect_ratio(PlayerRect(center), w)}

\* Player.update(dt, walls): the player after the step, whether the step was
\* rolled back, and the rect the step led to
player_update(t, walls) ==
    LET velocity == Limited(t)
        position == VAdd(t.position, velocity)
        center == PlayerCenter(position)
        hit == walls # {} /\ player_collisions(center, walls) # {}
        stepped == IF hit
                   THEN [t EXCEPT !.velocity = Zero2,
                                  !.rect_center = PlayerCenter(t.position),
                                  !.collision_rect_center = PlayerCenter(t.position)]
                   ELSE [t EXCEPT !.velocity = velocity,
                                  !.position = position,
                                  !.rect_center = center,
                                  !.collision_rect_center = center]
    IN  [hit |-> hit,
         moved_rect |-> PlayerRect(center),
         done |-> update_noise_level([stepped EXCEPT !.acceleration = Zero2])]

(***************************************************************************)
(* Python floats are IEEE 754 doubles.  A double that is not negative is   *)
(* kept as [hi, lo, e], the value (hi * Limb + lo) * 2^e with a mantissa   *)
(* of 53 bits, 2^52 <= hi * Limb + lo < 2^53, or as FZero.  Every          *)
(* operation rounds its exact result to the nearest double, ties to the    *)
(* even mantissa.                                                          *)
(***************************************************************************)
Limb == Pow(2, 26)

FZero == [hi |-> 0, lo |-> 0, e |-> 0]

IsZero(a) == a.hi = 0 /\ a.lo = 0

\* mantissas of up to 57 bits, as [hi, lo]
PGe(x, y) == x.hi > y.hi \/ (x.hi = y.hi /\ x.lo >= y.lo)

PSub(x, y) ==
    IF x.lo >= y.lo THEN [hi |-> x.hi - y.hi, lo |-> x.lo - y.lo]
    ELSE [hi |-> x.hi - y.hi - 1, lo |-> x.lo + Limb - y.lo]

PDouble(x) == [hi |-> 2 * x.hi + (2 * x.lo) \div Limb, lo |-> (2 * x.lo) % Limb]

\* one bit to the right: the bit shifted out becomes the guard bit, and the
\* former guard bit is remembered in sticky
ShiftRight(w) ==
    [hi |-> w.hi \div 2, lo |-> (w.lo + (w.hi % 2) * Limb) \div 2, e |-> w.e + 1,
     guard |-> w.lo % 2 = 1, sticky |-> w.sticky \/ w.guard]

\* shift right until the mantissa has 53 bits
RECURSIVE ShiftDown(_)
ShiftDown(w) == IF w.hi < 2 * Limb THEN w ELSE ShiftDown(ShiftRight(w))

\* shift right by d bits
RECURSIVE ShiftBy(_, _)
ShiftBy(w, d) == IF d = 0 THEN w ELSE ShiftBy(ShiftRight(w), d - 1)

\* shift an exact mantissa left until it has 53 bits
RECURSIVE ShiftUp(_)
ShiftUp(a) ==
    IF a.hi >= Limb THEN a
    ELSE ShiftUp([hi |-> PDouble(a).hi, lo |-> PDouble(a).lo, e |-> a.e - 1])

\* round to nearest, ties to even
RoundEven(w) ==
    LET up == w.guard /\ (w.sticky \/ w.lo % 2 = 1)
        lo == IF up THEN w.lo + 1 ELSE w.lo
        hi == w.hi + lo \div Limb
    IN  IF hi >= 2 * Limb THEN [hi |-> Limb, lo |-> 0, e |-> w.e + 1]
        ELSE [hi |-> hi, lo |-> lo % Limb, e |-> w.e]

\* float(n) * 2^k for an integer 0 <= n < 2^26
FromInt(n, k) == IF n = 0 THEN FZero ELSE ShiftUp([hi |-> 0, lo |-> n, e |-> k])

\* a * (n * 2^k) for a multiplier with an integer 0 <= n < 16
FMulSmall(a, n, k) ==
    IF IsZero(a) \/ n = 0 THEN FZero
    ELSE RoundEven(ShiftDown([hi |-> a.hi * n + (a.lo * n) \div Limb,
                              lo |-> (a.lo * n) % Limb,
                              e |-> a.e + k, guard |-> FALSE, sticky |-> FALSE]))

\* a + b
FAdd(a, b) ==
    IF IsZero(a) THEN b
    ELSE IF IsZero(b) THEN a
    ELSE LET big == IF a.e >= b.e THEN a ELSE b
             small == IF a.e >= b.e THEN b ELSE a
         IN  IF big.e - small.e > 55 THEN big
             ELSE LET s == ShiftBy([hi |-> small.hi, lo |-> small.lo, e |-> small.e,
                                    guard |-> FALSE, sticky |-> FALSE],
                                   big.e - small.e)
                  IN  RoundEven(ShiftDown([hi |-> big.hi + s.hi + (big.lo + s.lo) \div Limb,
                                           lo |-> (big.lo + s.lo) % Limb,
                                           e |-> big.e, guard |-> s.guard,
                                           sticky |-> s.sticky]))

\* the first n bits of r / d, for r < 2 * d, and the remainder
RECURSIVE DivBits(_, _, _, _)
DivBits(r, d, q, n) ==
    IF q.hi >= 0 /\ PGe(r, d)
    THEN IF n = 1 THEN [q |-> [hi |-> PDouble(q).hi, lo |-> PDouble(q).lo + 1], r |-> PSub(r, d)]
         ELSE DivBits(PDouble(PSub(r, d)), d,
                      [hi |-> PDouble(q).hi, lo |-> PDouble(q).lo + 1], n - 1)
    ELSE IF n = 1 THEN [q |-> PDouble(q), r |-> r]
         ELSE DivBits(PDouble(r), d, PDouble(q), n - 1)

\* a / b for b > 0
FDiv(a, b) ==
    IF IsZero(a) THEN FZero
    ELSE LET qr == DivBits([hi |-> a.hi, lo |-> a.lo], [hi |-> b.hi, lo |-> b.lo],
                           [hi |-> 0, lo |-> 0], 55)
         IN  RoundEven(ShiftDown([hi |-> qr.q.hi, lo |-> qr.q.lo, e |-> a.e - b.e - 54,
                                  guard |-> FALSE, sticky |-> qr.r # [hi |-> 0, lo |-> 0]]))

\* a >= b
FGe(a, b) ==
    IF IsZero(b) THEN TRUE
    ELSE IF IsZero(a) THEN FALSE
    ELSE a.e > b.e \/ (a.e = b.e /\ PGe(a, b))

FLt(a, b) == ~FGe(a, b)

(***************************************************************************)
(* LootItem (logic/loot_system.py).  steal_time and steal_progress are     *)
(* doubles.  A frame time dt is given as [n, k], the double n * 2^k        *)
(* seconds, and a base time likewise.                                      *)
(***************************************************************************)
LootTypes == {"CASH", "JEWELS", "ARTWORK", "ARTIFACT", "DOCUMENT"}

\* the monetary values of the model (positive integers)
Values == {1, 200, 1000, 5000}

\* the frame times offered to update_stealing: 0 s, 1.0 s and 3.0 s
LootDts == { [n |-> 0, k |-> 0], [n |-> 1, k |-> 0], [n |-> 3, k |-> 0] }

\* update_stealing is offered until the progress has passed OverSteal times
\* the completion mark
OverSteal == 2

Complete == 100              \* steal_progress >= 100
ValueScale == 1000           \* value / 1000

\* base_times: 1.0, 2.0, 3.0, 4.0 and 1.5
base_times(loot_type) ==
    CASE loot_type = "CASH" -> [n |-> 1, k |-> 0]
      [] loot_type = "JEWELS" -> [n |-> 1, k |-> 1]
      [] loot_type = "ARTWORK" -> [n |-> 3, k |-> 0]
      [] loot_type = "ARTIFACT" -> [n |-> 1, k |-> 2]
      [] loot_type = "DOCUMENT" -> [n |-> 3, k |-> -1]

\* _get_steal_time that ignores the value
get_steal_time_flat(loot_type, value) ==
    FromInt(base_times(loot_type).n, base_times(loot_type).k)

\* LootItem._get_steal_time: base_time * (1.0 + (value / 1000))
get_steal_time(loot_type, value) ==
    FMulSmall(FAdd(FromInt(1, 0), FDiv(FromInt(value, 0), FromInt(ValueScale, 0))),
              base_times(loot_type).n, base_times(loot_type).k)

\* the steal times of the items of the model
StealTimes == [loot_type \in LootTypes, value \in Values |-> get_steal_time(loot_type, value)]

\* LootItem.__init__
NewLoot(loot_type, value) ==
    [ loot_type      |-> loot_type,
      value          |-> value,
      steal_time     |-> get_steal_time(loot_type, value),
      being_stolen   |-> FALSE,
      steal_progress |-> FZero ]

\* start_stealing that restarts a steal in progress
start_stealing_restarts(it) ==
    [ret |-> TRUE, item |-> [it EXCEPT !.being_stolen = TRUE, !.steal_progress = FZero]]

\* LootItem.start_stealing: the return value and the item afterwards
start_stealing(it) ==
    IF ~it.being_stolen
    THEN [ret |-> TRUE, item |-> [it EXCEPT !.being_stolen = TRUE, !.steal_progress = FZero]]
    ELSE [ret |-> FALSE, item |-> it]

\* stop_stealing that keeps the progress made
stop_stealing_pauses(it) ==
    IF it.being_stolen
    THEN [ret |-> TRUE, item |-> [it EXCEPT !.being_stolen = FALSE]]
    ELSE [ret |-> FALSE, item |-> it]

\* LootItem.stop_stealing
stop_stealing(it) ==
    IF it.being_stolen
    THEN [ret |-> TRUE, item |-> [it EXCEPT !.being_stolen = FALSE, !.steal_progress = FZero]]
    ELSE [ret |-> FALSE, item |-> it]

\* update_stealing that completes one call late: "steal_progress > 100"
update_stealing_late(it, dt) ==
    IF it.being_stolen
    THEN LET progress == FAdd(it.steal_progress,
                              FMulSmall(FDiv(FromInt(Complete, 0), it.steal_time), dt.n, dt.k))
         IN  [ret |-> ~FGe(FromInt(Complete, 0), progress),
              item |-> [it EXCEPT !.steal_progress = progress]]
    ELSE [ret |-> FALSE, item |-> it]

\* LootItem.update_stealing(dt): progress_per_second = 100 / steal_time;
\* steal_progress += progress_per_second * dt
update_stealing(it, dt) ==
    IF it.being_stolen
    THEN LET progress == FAdd(it.steal_progress,
                              FMulSmall(FDiv(FromInt(Complete, 0), it.steal_time), dt.n, dt.k))
         IN  [ret |-> FGe(progress, FromInt(Complete, 0)),
              item |-> [it EXCEPT !.steal_progress = progress]]
    ELSE [ret |-> FALSE, item |-> it]

\* a frame time in eighths of a second
Eighths(dt) == dt.n * Pow(2, dt.k + 3)

\* returned: no call yet.  elapsed is the frame time of the update_stealing
\* calls made on the item since it was last started, in eighths of a second
NoResult == [op |-> "none", ret |-> FALSE, before |-> FZero, elapsed |-> 0]

(***************************************************************************)
(* The game of main.py: Game with its own Player, Guard, Loot and Wall     *)
(* classes.  Positions are in pixels, times in milliseconds, speeds in     *)
(* pixels per second, noise_level and alert_level in halves (they change   *)
(* in steps of 0.5), angles in millidegrees.  Players, guards and loot sit *)
(* on whole pixels, where "rect.center = position" loses nothing.          *)
(* Game.update is offered while every step is a whole number of pixels and *)
(* every bearing the guards compute is along an axis.                      *)
(***************************************************************************)
SCREEN_WIDTH == 800
SCREEN_HEIGHT == 600
wall_thickness == 20
main_size == 32              \* Player.size, Guard.size
loot_size == 16              \* Loot.size
main_player_speed == 200     \* Player.speed
main_guard_speed == 100      \* Guard.speed
wait_duration == 1000        \* Guard.wait_duration, 1.0 s
main_view_distance == 150    \* Guard.view_distance
main_view_angle == 90000     \* Guard.view_angle, 90 degrees
ray_step == 5                \* cast_ray(..., step=5)

Wall(x, y, width, height) == [left |-> x, top |-> y, width |-> width, height |-> height]

\* the rect of a sprite of the given size centered on a position
SpriteRect(center, size) ==
    [left |-> center[1] - size \div 2, top |-> center[2] - size \div 2,
     width |-> size, height |-> size]

\* the squared length of the vector from a to b
Dist2(a, b) == (b[1] - a[1]) * (b[1] - a[1]) + (b[2] - a[2]) * (b[2] - a[2])

\* velocity * dt, in pixels, for a velocity in pixels per second and dt in ms
StepOf(velocity, dt) == <<TruncDiv(velocity[1] * dt, 1000), TruncDiv(velocity[2] * dt, 1000)>>

WholeStep(velocity, dt) == (velocity[1] * dt) % 1000 = 0 /\ (velocity[2] * dt) % 1000 = 0

\* Player.__init__ of main.py
NewMainPlayer(x, y) ==
    [ position     |-> <<x, y>>,
      rect_center  |-> <<x, y>>,
      velocity     |-> Zero2,
      is_crouching |-> FALSE,
      is_running   |-> FALSE,
      noise_level  |-> 0,
      loot_count   |-> 0 ]

\* the velocity Player.update derives from the keys: speed * 1.5 with shift,
\* else speed * 0.5 with ctrl
KeyVelocity(keys) ==
    LET speed == IF keys.shift THEN (main_player_speed * 3) \div 2
                 ELSE IF keys.ctrl THEN main_player_speed \div 2
                 ELSE main_player_speed
    IN  <<keys.dx * speed, keys.dy * speed>>

\* "Update noise level" without the min(100, ...) of the running branch
KeyNoise_unclamped(noise_level, keys) ==
    IF keys.dx = 0 /\ keys.dy = 0 THEN (IF noise_level - 2 < 0 THEN 0 ELSE noise_level - 2)
    ELSE IF keys.shift THEN noise_level + 4
    ELSE IF keys.ctrl THEN (IF noise_level - 1 < 0 THEN 0 ELSE noise_level - 1)
    ELSE Min(100, noise_level + 1)

\* "Update noise level", in halves
KeyNoise(noise_level, keys) ==
    IF keys.dx = 0 /\ keys.dy = 0 THEN (IF noise_level - 2 < 0 THEN 0 ELSE noise_level - 2)
    ELSE IF keys.shift THEN Min(200, noise_level + 4)
    ELSE IF keys.ctrl THEN (IF noise_level - 1 < 0 THEN 0 ELSE noise_level - 1)
    ELSE Min(100, noise_level + 1)

\* Player.update(dt, walls) of main.py; keys is pygame.key.get_pressed()
main_player_update(p, keys, dt, walls) ==
    LET velocity == KeyVelocity(keys)
        position == VAdd(p.position, StepOf(velocity, dt))
        hit == walls # {} /\ \E w \in walls : colliderect(SpriteRect(position, main_size), w)
    IN  [p EXCEPT !.is_running = keys.shift,
                  !.is_crouching = keys.ctrl,
                  !.velocity = velocity,
                  !.position = IF hit THEN p.position ELSE position,
                  !.rect_center = IF hit THEN p.position ELSE position,
                  !.noise_level = KeyNoise(p.noise_level, keys)]

\* Guard.__init__ of main.py
NewMainGuard(x, y, patrol_points) ==
    [ position      |-> <<x, y>>,
      rect_center   |-> <<x, y>>,
      velocity      |-> Zero2,
      patrol_points |-> IF patrol_points = <<>> THEN <<<<x, y>>>> ELSE patrol_points,
      current_point |-> 0,
      wait_timer    |-> 0,
      view_direction |-> 0,
      alert_level   |-> 0,
      alerted       |-> FALSE ]

\* the vector is along an axis, where normalize() and atan2() are exact
Aligned(v) == v[1] = 0 \/ v[2] = 0

\* direction.normalize() * speed, for a vector along an axis
Heading(v, speed) == <<normalize(v)[1] * speed, normalize(v)[2] * speed>>

\* the first part of Guard.update: chase the player or follow the patrol path
main_guard_steer(g, dt, p) ==
    IF g.alerted
    THEN LET to_player == VSub(p.position, g.position)
         IN  IF Dist2(g.position, p.position) > 5 * 5
             THEN [g EXCEPT !.velocity = Heading(to_player, (main_guard_speed * 3) \div 2),
                            !.view_direction = atan2_degrees(normalize(to_player)[2],
                                                             normalize(to_player)[1])]
             ELSE [g EXCEPT !.velocity = Zero2]
    ELSE IF g.wait_timer > 0
    THEN [g EXCEPT !.wait_timer = @ - dt, !.velocity = Zero2]
    ELSE LET target == g.patrol_points[g.current_point + 1]
             to_target == VSub(target, g.position)
         IN  IF Dist2(g.position, target) < 5 * 5
             THEN [g EXCEPT !.wait_timer = wait_duration,
                            !.current_point = (@ + 1) % Len(g.patrol_points)]
             ELSE [g EXCEPT !.velocity = Heading(to_target, main_guard_speed),
                            !.view_direction = atan2_degrees(normalize(to_target)[2],
                                                             normalize(to_target)[1])]

\* "Update position" and "Handle collisions with walls" of Guard.update
main_guard_move(g, dt, walls) ==
    LET position == VAdd(g.position, StepOf(g.velocity, dt))
        hit == walls # {} /\ \E w \in walls : colliderect(SpriteRect(position, main_size), w)
    IN  [g EXCEPT !.position = IF hit THEN g.position ELSE position,
                  !.rect_center = IF hit THEN g.position ELSE position]

\* Guard.cast_ray(start, end, walls) for a ray along an axis: a 2 x 2 probe
\* every ray_step pixels, for i in range(0, int(distance), step)
cast_ray(start, end, walls) ==
    LET direction == normalize(VSub(end, start))
        distance == Length(VSub(end, start))
    IN  \E i \in 0 .. distance - 1 :
          /\ i % ray_step = 0
          /\ \E w \in walls :
                colliderect(w, [left |-> start[1] + direction[1] * i - 1,
                                top |-> start[2] + direction[2] * i - 1,
                                width |-> 2, height |-> 2])

\* alert_level += amount with "if alert_level >= 50: alerted = True"
Raise_early(g, amount) ==
    [g EXCEPT !.alert_level = @ + amount,
              !.alerted = g.alerted \/ g.alert_level + amount >= 100]

\* alert_level += amount; if alert_level >= 100: alerted = True
Raise(g, amount) ==
    [g EXCEPT !.alert_level = @ + amount,
              !.alerted = g.alerted \/ g.alert_level + amount >= 200]

\* "if self.alert_level > 0 and not self.alerted: self.alert_level -= 0.5"
Calm(g) == IF g.alert_level > 0 /\ ~g.alerted THEN [g EXCEPT !.alert_level = @ - 1] ELSE g

\* the player is heard: distance <= noise_level + view_distance * 0.3
Heard(g, p) ==
    4 * Dist2(g.position, p.position)
        <= (p.noise_level + (main_view_distance * 2 * 3) \div 10)
            * (p.noise_level + (main_view_distance * 2 * 3) \div 10)

\* the player is within view_distance
InRange(g, p) == Dist2(g.position, p.position) <= main_view_distance * main_view_distance

\* Guard.check_player_detection(player, walls) of main.py
main_check_player_detection(g, p, walls) ==
    IF Heard(g, p) THEN Raise(g, 10)
    ELSE IF ~InRange(g, p) THEN Calm(g)
    ELSE LET to_player == VSub(p.position, g.position)
             angle == atan2_degrees(to_player[2], to_player[1])
         IN  IF angle_diff(angle, g.view_direction) <= main_view_angle \div 2
             THEN IF walls # {} /\ cast_ray(g.position, p.position, walls)
                  THEN Calm(g)
                  ELSE Calm(Raise(g, 20))
             ELSE Calm(g)

\* Guard.update that silences the player it is shown
main_guard_update_silences(g, dt, p, walls) ==
    [guard |-> main_check_player_detection(main_guard_move(main_guard_steer(g, dt, p), dt, walls),
                                           p, walls),
     player |-> [p EXCEPT !.noise_level = 0]]

\* Guard.update(dt, player, walls) of main.py: the guard afterwards, and the
\* player object it was handed, which it only reads
main_guard_update(g, dt, p, walls) ==
    [guard |-> main_check_player_detection(main_guard_move(main_guard_steer(g, dt, p), dt, walls),
                                           p, walls),
     player |-> p]

\* every quantity of the guard's update is exact: the steps are whole pixels,
\* and the player is on the guard's row or column whenever it is chased or
\* the bearing to it is taken
ExactGuard(g, dt, p) ==
    LET steered == main_guard_steer(g, dt, p)
        moved == main_guard_move(steered, dt, {})
    IN  /\ g.alerted => Aligned(VSub(p.position, g.position))
        /\ WholeStep(steered.velocity, dt)
        /\ (~Heard(moved, p) /\ InRange(moved, p)) => Aligned(VSub(p.position, moved.position))

\* the hover moves a loot item by fractions of a pixel: its position is kept
\* in thousandths of a pixel
MilliPx == 1000

\* rect.center = position: the coordinates are truncated to whole pixels
LootCenter(position) == <<TruncDiv(position[1], MilliPx), TruncDiv(position[2], MilliPx)>>

\* Loot.__init__
NewMainLoot(x, y, value) ==
    [ position    |-> <<x * MilliPx, y * MilliPx>>,
      rect_center |-> <<x, y>>,
      original_y  |-> y * MilliPx,
      value       |-> value,
      collected   |-> FALSE ]

\* Loot.update(dt); hover is math.sin(pygame.time.get_ticks() * 0.003) * 3
main_loot_update(l, hover) ==
    [l EXCEPT !.position = <<l.position[1], l.original_y + hover>>,
              !.rect_center = LootCenter(<<l.position[1], l.original_y + hover>>)]

\* pygame.sprite.collide_rect
collide_rect(a, size_a, b, size_b) ==
    colliderect(SpriteRect(a.rect_center, size_a), SpriteRect(b.rect_center, size_b))

\* Game.create_level: the walls
LevelWalls ==
    { Wall(0, 0, SCREEN_WIDTH, wall_thickness),
      Wall(0, SCREEN_HEIGHT - wall_thickness, SCREEN_WIDTH, wall_thickness),
      Wall(0, 0, wall_thickness, SCREEN_HEIGHT),
      Wall(SCREEN_WIDTH - wall_thickness, 0, wall_thickness, SCREEN_HEIGHT),
      Wall(200, 100, 20, 200), Wall(400, 300, 200, 20),
      Wall(600, 100, 20, 200), Wall(200, 500, 400, 20) }

\* Game.create_level: player, guards and loot
create_level(gm) ==
    [gm EXCEPT
       !.player = NewMainPlayer(100, 100),
       !.guards = << NewMainGuard(300, 200, <<<<300, 200>>, <<500, 200>>, <<500, 400>>, <<300, 400>>>>),
                     NewMainGuard(600, 500, <<<<600, 500>>, <<700, 500>>, <<700, 300>>, <<600, 300>>>>) >>,
       !.loots = << NewMainLoot(150, 150, 100), NewMainLoot(400, 200, 200),
                    NewMainLoot(700, 150, 300), NewMainLoot(300, 500, 400),
                    NewMainLoot(650, 450, 500) >>]

\* what a guard can observe of the player
Snapshot(p) == [position |-> p.position, noise_level |-> p.noise_level,
                is_crouching |-> p.is_crouching]

\* Game.__init__; calls lists the update calls the latest Game.update made, and
\* seen the player each guard was handed in it
NewGame ==
    create_level([ state |-> "MENU", running |-> TRUE, score |-> 0, time |-> 0,
                   player |-> NewMainPlayer(0, 0), guards |-> <<>>, loots |-> <<>>,
                   calls |-> <<>>, seen |-> <<>> ])

\* Game.start_game
start_game(gm) == [create_level([gm EXCEPT !.score = 0, !.time = 0]) EXCEPT !.state = "PLAYING"]

\* Game.game_over
game_over(gm) == [gm EXCEPT !.state = "GAME_OVER"]

\* Game.victory
victory(gm) == [gm EXCEPT !.state = "VICTORY"]

\* "for guard in self.guards" of Game.update, from the i-th guard on: each
\* guard is updated with the player object, and an alerted guard whose rect
\* meets the player's ends the game
RECURSIVE UpdateGuards(_, _, _)
UpdateGuards(gm, i, dt) ==
    IF i > Len(gm.guards) THEN gm
    ELSE LET r == main_guard_update(gm.guards[i], dt, gm.player, LevelWalls)
             updated == [gm EXCEPT !.guards[i] = r.guard,
                                   !.player = r.player,
                                   !.calls = Append(@, <<"guard", i>>),
                                   !.seen = Append(@, Snapshot(gm.player))]
         IN  UpdateGuards(IF r.guard.alerted
                             /\ collide_rect(r.guard, main_size, r.player, main_size)
                          THEN game_over(updated) ELSE updated,
                          i + 1, dt)

\* "for loot in self.loots" of Game.update over the items that were in the
\* group when the loop began, from the i-th on; kept counts the items before
\* the i-th that are still in the group
RECURSIVE UpdateLoots(_, _, _, _)
UpdateLoots(gm, i, kept, hover) ==
    IF kept + 1 > Len(gm.loots) THEN gm
    ELSE LET l == main_loot_update(gm.loots[kept + 1], hover)
             called == [gm EXCEPT !.calls = Append(@, <<"loot", i>>)]
         IN  IF ~l.collected /\ collide_rect(gm.player, main_size, l, loot_size)
             THEN UpdateLoots([called EXCEPT
                                 !.score = @ + l.value,
                                 !.player.loot_count = @ + 1,
                                 !.loots = SubSeq(gm.loots, 1, kept)
                                             \o SubSeq(gm.loots, kept + 2, Len(gm.loots))],
                              i + 1, kept, hover)
             ELSE UpdateLoots([called EXCEPT !.loots[kept + 1] = l], i + 1, kept + 1, hover)

\* Game.update whose clock also runs outside play
game_update_clock(gm, dt, keys, hover) ==
    IF gm.state # "PLAYING" THEN [gm EXCEPT !.time = @ + dt]
    ELSE LET timed == [gm EXCEPT !.time = @ + dt,
                                 !.player = main_player_update(@, keys, dt, LevelWalls),
                                 !.calls = <<<<"player", 1>>>>,
                                 !.seen = <<>>]
             looted == UpdateLoots(UpdateGuards(timed, 1, dt), 1, 0, hover)
         IN  IF Len(looted.loots) = 0 THEN victory(looted) ELSE looted

\* Game.update(dt) with the keys held and the hover the clock gives this tick
game_update(gm, dt, keys, hover) ==
    IF gm.state # "PLAYING" THEN gm
    ELSE LET timed == [gm EXCEPT !.time = @ + dt,
                                 !.player = main_player_update(@, keys, dt, LevelWalls),
                                 !.calls = <<<<"player", 1>>>>,
                                 !.seen = <<>>]
             looted == UpdateLoots(UpdateGuards(timed, 1, dt), 1, 0, hover)
         IN  IF Len(looted.loots) = 0 THEN victory(looted) ELSE looted

(***************************************************************************)
(* LootManager (logic/loot_system.py).  items lists the LootItem objects   *)
(* generate_loot has made, in the order they were made; loot_sprites is    *)
(* the set of their numbers that are in the sprite group.  A loot_item     *)
(* argument is the number of one of them, or 0 for a LootItem the caller   *)
(* has made itself.  An argument left at its default None is the string   *)
(* None for a loot type and the empty sequence for a value; a value that   *)
(* is given is a sequence of one integer.                                  *)
(***************************************************************************)
None == "None"

NoValue == <<>>

IsForeign(loot_item) == loot_item < 1

\* loot_configs: the value_range of a type
value_range(loot_type) ==
    CASE loot_type = "CASH" -> <<100, 500>>
      [] loot_type = "JEWELS" -> <<300, 800>>
      [] loot_type = "ARTWORK" -> <<500, 1500>>
      [] loot_type = "ARTIFACT" -> <<1000, 2000>>
      [] loot_type = "DOCUMENT" -> <<2000, 5000>>

\* generate_loot that adds the item to the group and forgets its value
generate_loot_uncounted(m, loot_type, value, rnd) ==
    LET chosen == IF loot_type = None THEN rnd.loot_type ELSE loot_type
        worth == IF value = NoValue THEN rnd.value ELSE value[1]
    IN  [m EXCEPT !.items = Append(@, [loot_type |-> chosen, value |-> worth]),
                  !.loot_sprites = @ \cup {Len(m.items) + 1}]

\* LootManager.generate_loot(x, y, loot_type, value); rnd.loot_type is what
\* random.choices gives and rnd.value what random.randint gives
generate_loot(m, loot_type, value, rnd) ==
    LET chosen == IF loot_type = None THEN rnd.loot_type ELSE loot_type
        worth == IF value = NoValue THEN rnd.value ELSE value[1]
    IN  [m EXCEPT !.items = Append(@, [loot_type |-> chosen, value |-> worth]),
                  !.loot_sprites = @ \cup {Len(m.items) + 1},
                  !.total_value = @ + worth]

\* what the random module gives when it is not asked
NoRandom == [loot_type |-> None, value |-> 0]

\* LootManager.__init__ with create_test_loot
NewLootManager ==
    LET empty == [items |-> <<>>, loot_sprites |-> {}, total_value |-> 0, collected_value |-> 0]
        one == generate_loot(empty, "CASH", <<200>>, NoRandom)
        two == generate_loot(one, "JEWELS", <<500>>, NoRandom)
        three == generate_loot(two, "ARTWORK", <<1000>>, NoRandom)
        four == generate_loot(three, "ARTIFACT", <<1500>>, NoRandom)
    IN  generate_loot(four, "DOCUMENT", <<3000>>, NoRandom)

\* the value attribute of the loot_item argument
ValueOf(m, loot_item, foreign_value) ==
    IF IsForeign(loot_item) THEN foreign_value ELSE m.items[loot_item].value

\* LootManager.collect_loot(loot_item): the manager afterwards and the value returned
collect_loot(m, loot_item, foreign_value) ==
    IF loot_item \in m.loot_sprites
    THEN [manager |-> [m EXCEPT !.collected_value = @ + ValueOf(m, loot_item, foreign_value),
                                !.loot_sprites = @ \ {loot_item}],
          ret |-> ValueOf(m, loot_item, foreign_value)]
    ELSE [manager |-> m, ret |-> 0]

\* a * 100: the exact product, taken in digits of 13 bits, rounded once
FMulHundred(a) ==
    IF IsZero(a) THEN FZero
    ELSE LET digit == Pow(2, 13)
             p0 == (a.lo % digit) * 100
             p1 == (a.lo \div digit) * 100 + (p0 \div digit)
             p2 == (a.hi % digit) * 100 + (p1 \div digit)
             p3 == (a.hi \div digit) * 100 + (p2 \div digit)
             low == (p1 % digit) * digit + (p0 % digit)
             r2 == p2 % digit
         IN  RoundEven(ShiftDown([hi |-> (r2 \div 64) + p3 * 128,
                                  lo |-> (low \div 64) + (r2 % 64) * Pow(2, 20),
                                  e |-> a.e + 6,
                                  guard |-> (low \div 32) % 2 = 1,
                                  sticky |-> low % 32 # 0]))

\* LootManager.get_collection_progress(): the sign and the magnitude of
\* (collected_value / total_value) * 100
get_collection_progress(m) ==
    IF m.total_value = 0 THEN [negative |-> FALSE, magnitude |-> FZero]
    ELSE [negative |-> m.collected_value # 0 /\ (m.collected_value < 0) # (m.total_value < 0),
          magnitude |-> FMulHundred(FDiv(FromInt(Abs(m.collected_value), 0),
                                         FromInt(Abs(m.total_value), 0)))]

(***************************************************************************)
(* MapLoader (logic/map_loader.py).  A JSON object is a function from its  *)
(* keys to its values and a JSON array a sequence; the sprite groups are   *)
(* the sequences of their tiles in the order they were added.  A tile      *)
(* carries the number of the layer it was made from.                       *)
(***************************************************************************)
tile_size == 16

\* dict.get(key, default)
Get(d, key, default) == IF key \in DOMAIN d THEN d[key] ELSE default

\* the empty dict
EmptyDict == <<>>

GroupNames == {"wall", "floor", "door", "vent", "loot", "security", "object"}

EmptyGroups == [name \in GroupNames |-> <<>>]

\* MapLoader.__init__
NewMapLoader ==
    [ tile_size |-> tile_size, map_data |-> EmptyDict, width |-> 0, height |-> 0,
      groups |-> EmptyGroups ]

\* _get_tile_info that takes the last tileset whose range holds the tile ID
get_tile_info_last(map_data, tile_id) ==
    LET tilesets == Get(map_data, "tilesets", <<>>)
        matching == { n \in 1 .. Len(tilesets) :
                        /\ Get(tilesets[n], "firstgid", 1) <= tile_id
                        /\ tile_id < Get(tilesets[n], "firstgid", 1)
                                       + Len(Get(tilesets[n], "tiles", <<>>)) }
    IN  IF map_data = EmptyDict \/ matching = {} THEN EmptyDict
        ELSE LET n == CHOOSE m \in matching : \A o \in matching : o <= m
             IN  Get(tilesets[n], "tiles", <<>>)[tile_id - Get(tilesets[n], "firstgid", 1) + 1]

\* MapLoader._get_tile_info: the entry of the first tileset, from the n-th on,
\* whose range holds the tile ID, or {}
RECURSIVE TileInfoFrom(_, _, _)
TileInfoFrom(tilesets, n, tile_id) ==
    IF n > Len(tilesets) THEN EmptyDict
    ELSE LET first_gid == Get(tilesets[n], "firstgid", 1)
             tiles == Get(tilesets[n], "tiles", <<>>)
         IN  IF first_gid <= tile_id /\ tile_id < first_gid + Len(tiles)
             THEN tiles[tile_id - first_gid + 1]
             ELSE TileInfoFrom(tilesets, n + 1, tile_id)

get_tile_info(map_data, tile_id) ==
    IF map_data = EmptyDict THEN EmptyDict
    ELSE TileInfoFrom(Get(map_data, "tilesets", <<>>), 1, tile_id)

\* the tile ID of a cell that wraps around a short data array
cell_id_wraps(layer_data, idx) ==
    IF Len(layer_data) = 0 THEN 0 ELSE layer_data[(idx % Len(layer_data)) + 1]

\* the tile ID of the cell with row-major index idx; a cell past the end of
\* the data array is passed over as an empty one is
cell_id(layer_data, idx) == IF idx >= Len(layer_data) THEN 0 ELSE layer_data[idx + 1]

\* the group a tile of the given type is added to
GroupOf(tile_type) == IF tile_type \in GroupNames \ {"object"} THEN tile_type ELSE "object"

\* Tile(x * tile_size, y * tile_size, image, tile_type, ...) for a tile ID
NewTile(ld, li, idx, tile_id) ==
    LET tile_info == get_tile_info(ld.map_data, tile_id)
    IN  [ x |-> (idx % ld.width) * ld.tile_size,
          y |-> (idx \div ld.width) * ld.tile_size,
          tile_type |-> Get(tile_info, "type", "wall"),
          name |-> Get(tile_info, "name", "tile_" \o ToString(tile_id)),
          layer |-> li ]

\* the loops over y and x of _create_tiles for layer li, from index idx on
RECURSIVE CreateCells(_, _, _, _)
CreateCells(ld, li, layer_data, idx) ==
    IF idx >= ld.width * ld.height THEN ld
    ELSE LET tile_id == cell_id(layer_data, idx)
         IN  IF tile_id = 0 THEN CreateCells(ld, li, layer_data, idx + 1)
             ELSE LET tile == NewTile(ld, li, idx, tile_id)
                  IN  CreateCells([ld EXCEPT !.groups[GroupOf(tile.tile_type)] = Append(@, tile)],
                                  li, layer_data, idx + 1)

\* the loop over the layers of _create_tiles, from layer li on
RECURSIVE CreateLayers(_, _, _)
CreateLayers(ld, layers, li) ==
    IF li > Len(layers) THEN ld
    ELSE CreateLayers(CreateCells(ld, li, Get(layers[li], "data", <<>>), 0), layers, li + 1)

\* MapLoader._create_tiles
create_tiles(ld) ==
    IF ld.map_data = EmptyDict THEN ld
    ELSE CreateLayers(ld, Get(ld.map_data, "layers", <<>>), 1)

\* MapLoader.load_map for a file that holds the JSON object map_data
load_map(ld, map_data) ==
    create_tiles([ld EXCEPT !.map_data = map_data,
                            !.width = Get(map_data, "width", 0),
                            !.height = Get(map_data, "height", 0),
                            !.groups = EmptyGroups])

(***************************************************************************)
(* logic/collision.py, for integer coordinates.  check_line_of_sight is    *)
(* modelled for segments along an axis, where dx / distance is 1, 0 or -1  *)
(* and every sample point is a whole pixel.  A distance is compared        *)
(* through its square: the root math.sqrt returns for an integer below     *)
(* 2^52 is below an integer radius exactly when the integer is below the   *)
(* radius squared.                                                         *)
(***************************************************************************)
los_step == 5                \* check_line_of_sight(..., step=5)
check_size == 4              \* pygame.Rect(x - 2, y - 2, 4, 4)

\* the sample points of the ray: current_distance = 0, step, 2 * step, ...
\* while current_distance < distance
Samples(distance) == { k * los_step : k \in { j \in 0 .. distance : j * los_step < distance } }

\* check_line_of_sight(start_pos, end_pos, wall_sprites)
check_line_of_sight(start_pos, end_pos, wall_sprites) ==
    LET delta == VSub(end_pos, start_pos)
        distance == Length(delta)
    IN  IF distance = 0 THEN TRUE
        ELSE ~ \E current_distance \in Samples(distance) : \E wall \in wall_sprites :
                 colliderect([left |-> start_pos[1] + normalize(delta)[1] * current_distance
                                         - check_size \div 2,
                              top |-> start_pos[2] + normalize(delta)[2] * current_distance
                                        - check_size \div 2,
                              width |-> check_size, height |-> check_size],
                             wall)

\* check_point_in_circle with "distance <= radius"
check_point_in_circle_closed(point, center, radius) ==
    radius >= 0 /\ Dist2(point, center) <= radius * radius

\* check_point_in_circle(point, center, radius): distance < radius
check_point_in_circle(point, center, radius) ==
    radius > 0 /\ Dist2(point, center) < radius * radius

\* an object the program has not constructed
Absent == [kind |-> "absent"]

\* probe: no call yet
NoProbe == [op |-> "none"]

ExtrasParked ==
    /\ loader = NewMapLoader /\ probe = NoProbe /\ sentry = Absent /\ intruder = Absent
    /\ manager = Absent /\ ship = Absent

\* the objects a scenario does not use stay as they were constructed
LootParked == item = NewLoot("CASH", 200) /\ returned = NoResult

Parked == thief = NewPlayer(0, 0) /\ LootParked /\ game = NewGame /\ ExtrasParked

(***************************************************************************)
(* The state machine.                                                      *)
(***************************************************************************)
PlayerStates ==
    { [position |-> <<q[1], 0>>, noise_level |-> q[2], is_crouching |-> q[3]] :
          q \in PlayerPoses }

\* the random numbers one call consumes: handle_search draws a turn and a
\* heading, check_player_detection draws once when a player is passed
Rnds(state, hasPlayer) ==
    [turn : IF state = "SEARCHING" THEN BOOLEAN ELSE {FALSE},
     heading : IF state = "SEARCHING" THEN SearchHeadings ELSE {0},
     draw : IF hasPlayer THEN 0 .. RandDen - 1 ELSE {0}]

\* last: the most recent call of guard.update, the guard state it started in
\* and how it ended
NoCall ==
    [op |-> "none", hasPlayer |-> FALSE, pre |-> "PATROLLING",
     raised |-> FALSE, detected |-> FALSE, collided |-> FALSE]

Init ==
    /\ guard = NewGuard(0, 0, Route)
    /\ player \in PlayerStates
    /\ last = NoCall
    /\ Parked

\* one call guard.update(dt, player, walls)
UpdateWith(dtSet, playerArgs, wallArgs) ==
    \E dt \in dtSet, hasPlayer \in playerArgs, walls \in wallArgs :
      \E rnd \in Rnds(guard.state, hasPlayer) :
        \E u \in {update(guard, dt, hasPlayer, player, walls, rnd)} :
            /\ guard' = u.done
            /\ last' = [op |-> "update", hasPlayer |-> hasPlayer,
                        pre |-> guard.state,
                        raised |-> u.raised,
                        detected |-> u.detected,
                        collided |-> ~u.raised /\ collisions(u.handled, dt, walls)]
            /\ UNCHANGED <<player, others>>

GuardUpdate == UpdateWith(Dts, BOOLEAN, {Walls})

\* the player's own update: it moves, and its noise level and crouch flag change
PlayerUpdate ==
    /\ player' \in PlayerStates
    /\ player' # player
    /\ UNCHANGED <<guard, last, others>>

Next == GuardUpdate \/ PlayerUpdate

Spec == Init /\ [][Next]_vars

(***************************************************************************)
(* The guard in any of its five states.  state, alert_position and         *)
(* view_direction are public attributes and alert() is a public method:    *)
(* the states below are a new guard, a guard after alert(player.position), *)
(* and guards whose state the caller has set.                              *)
(***************************************************************************)
InvestigatedPositions == {NoPos, OwnPos(<<0, 0>>), OwnPos(<<90, 0>>)}

AnyGuards(route) ==
    LET fresh(x, d) == [NewGuard(x, 0, route) EXCEPT !.view_direction = d]
    IN  UNION { { fresh(0, d),
                  alert(fresh(0, d), PlayerRef),
                  [alert(fresh(0, d), PlayerRef) EXCEPT !.state = "SEARCHING"],
                  [fresh(0, d) EXCEPT !.state = "SUSPICIOUS"],
                  [fresh(0, d) EXCEPT !.state = "INVESTIGATING",
                                      !.alert_position = OwnPos(<<90, 0>>)],
                  [fresh(54, d) EXCEPT !.state = "INVESTIGATING",
                                       !.alert_position = OwnPos(<<0, 0>>)],
                  [fresh(54, d) EXCEPT !.state = "INVESTIGATING"] } :
                d \in {0, 180000} }

InitAny ==
    /\ guard \in AnyGuards(Route)
    /\ player \in PlayerStates
    /\ last = NoCall
    /\ Parked

SpecAny == InitAny /\ [][Next]_vars

(***************************************************************************)
(* A new guard that is updated and whose public method alert() is also     *)
(* called from outside, with the player's position or another one.         *)
(***************************************************************************)
\* guard.alert(position)
AlertCall ==
    /\ \E position \in {PlayerRef, OwnPos(<<90, 0>>)} : guard' = alert(guard, position)
    /\ last' = [NoCall EXCEPT !.op = "alert", !.pre = guard.state]
    /\ UNCHANGED <<player, others>>

NextAlerts == GuardUpdate \/ PlayerUpdate \/ AlertCall

SpecAlerts == Init /\ [][NextAlerts]_vars

(***************************************************************************)
(* The frame loop without a player and without obstacles: update(dt) is    *)
(* called once per frame, forever, with a positive dt.                     *)
(***************************************************************************)
ShortDt == 2
LongDt == 6

\* the patrol route of the specification, [(0,0),(100,0)]
LongRoute == <<<<0, 0>>, <<400, 0>>>>

InitFrames ==
    /\ guard \in { NewGuard(0, 0, LongRoute),
                    alert(NewGuard(0, 0, LongRoute), PlayerRef) }
    /\ player \in { q \in PlayerStates : q.position = <<36, 0>> }
    /\ last = NoCall
    /\ Parked

ShortFrame == UpdateWith({ShortDt}, {FALSE}, {{}})

LongFrame == UpdateWith({LongDt}, {FALSE}, {{}})

Frame == ShortFrame \/ LongFrame

SpecFrames == InitFrames /\ [][Frame]_vars /\ WF_vars(Frame)

(***************************************************************************)
(* A guard created without a patrol route (patrol_points None or []), as   *)
(* the map loader returns for a guard_spawn object without patrol points,  *)
(* updated while it is PATROLLING, with and without a player and walls.    *)
(***************************************************************************)
\* spawn positions (x in quarter-pixels); at -60 the guard's rect is in a wall
Spawns == {-60, 0, 54}

InitLone ==
    /\ guard \in { NewGuard(x, 0, <<>>) : x \in Spawns }
    /\ player \in PlayerStates
    /\ last = NoCall
    /\ Parked

LoneUpdate ==
    /\ guard.state = "PATROLLING"
    /\ UpdateWith(Dts \cup {ShortDt}, BOOLEAN, {Walls, {}})

NextLone == LoneUpdate \/ PlayerUpdate

SpecLone == InitLone /\ [][NextLone]_vars

(***************************************************************************)
(* Entity kinematics: a guard on patrol and the thief walk toward the same *)
(* wall, each updated with the obstacle set on every tick.                 *)
(***************************************************************************)
\* one wall right of both spawn positions, in pixels
Obstacles == { [left |-> 20, top |-> -20, width |-> 10, height |-> 40] }

\* the direction_x the caller passes to Player.move: released, or held right
Directions == {0, 12}

InitEntities ==
    /\ guard = NewGuard(0, 0, Route)
    /\ player \in { q \in PlayerStates : q.position = <<612, 0>> }
    /\ last = NoCall
    /\ thief = NewPlayer(0, 0)
    /\ LootParked
    /\ game = NewGame
    /\ ExtrasParked

\* guard.update(dt, None, walls)
EntityGuardUpdate == UpdateWith({ShortDt, LongDt}, {FALSE}, {Obstacles})

\* thief.move(direction_x, 0)
ThiefMove ==
    /\ \E d \in Directions : thief' = player_move(thief, d, 0)
    /\ thief' # thief
    /\ UNCHANGED <<guard, player, last, lootVars, game, extras>>

\* thief.update(dt, walls)
ThiefUpdate ==
    /\ OnGrid(thief)
    /\ \E u \in {player_update(thief, Obstacles)} :
          /\ thief' = u.done
          /\ last' = [op |-> "player_update", hasPlayer |-> FALSE, pre |-> guard.state,
                      raised |-> FALSE, detected |-> FALSE, collided |-> u.hit]
    /\ UNCHANGED <<guard, player, lootVars, game, extras>>

NextEntities == EntityGuardUpdate \/ ThiefMove \/ ThiefUpdate

SpecEntities == InitEntities /\ [][NextEntities]_vars

(***************************************************************************)
(* A loot item of any type and value, and the calls a thief makes on it.   *)
(***************************************************************************)
InitLoot ==
    /\ guard = NewGuard(0, 0, Route)
    /\ player \in { q \in PlayerStates : q.position = <<612, 0>> /\ q.noise_level = 50 }
    /\ last = NoCall
    /\ thief = NewPlayer(0, 0)
    /\ item \in { NewLoot(loot_type, value) : loot_type \in LootTypes, value \in Values }
    /\ returned = NoResult
    /\ game = NewGame
    /\ ExtrasParked

\* one call on the item, recorded with its return value and the progress before it
LootCall(op, r, elapsed) ==
    /\ item' = r.item
    /\ returned' = [op |-> op, ret |-> r.ret, before |-> item.steal_progress,
                    elapsed |-> elapsed]
    /\ UNCHANGED <<guard, player, last, thief, game, extras>>

StartStealing ==
    \E r \in {start_stealing(item)} :
        LootCall("start_stealing", r, IF r.ret THEN 0 ELSE returned.elapsed)

StopStealing ==
    \E r \in {stop_stealing(item)} : LootCall("stop_stealing", r, returned.elapsed)

UpdateStealing ==
    /\ FLt(item.steal_progress, FromInt(OverSteal * Complete, 0))
    /\ \E dt \in LootDts :
          \E r \in {update_stealing(item, dt)} :
              LootCall("update_stealing", r,
                       IF item.being_stolen THEN returned.elapsed + Eighths(dt)
                       ELSE returned.elapsed)

NextLoot == StartStealing \/ StopStealing \/ UpdateStealing

SpecLoot == InitLoot /\ [][NextLoot]_vars

(***************************************************************************)
(* The game loop of main.py: Game.run calls handle_events and update each  *)
(* frame.  The frame time, the keys held and the clock reading of the      *)
(* hover are inputs.                                                       *)
(***************************************************************************)
MaxTicks == 4

GameDts == {100}

NoKeys == [dx |-> 0, dy |-> 0, shift |-> FALSE, ctrl |-> FALSE]

\* pygame.key.get_pressed(): idle, right, down, running right or down,
\* crouching down
KeySets ==
    { NoKeys,
      [NoKeys EXCEPT !.dx = 1],
      [NoKeys EXCEPT !.dy = 1],
      [NoKeys EXCEPT !.dx = 1, !.shift = TRUE],
      [NoKeys EXCEPT !.dy = 1, !.shift = TRUE],
      [NoKeys EXCEPT !.dy = 1, !.ctrl = TRUE] }

\* math.sin(pygame.time.get_ticks() * 0.003) * 3, in thousandths of a pixel
Hovers == {-2999, 0, 1500}

\* every step of the tick is a whole number of pixels and every bearing is
\* along an axis
ExactTick(gm, dt, keys) ==
    /\ WholeStep(KeyVelocity(keys), dt)
    /\ \A i \in 1 .. Len(gm.guards) :
          ExactGuard(gm.guards[i], dt, main_player_update(gm.player, keys, dt, LevelWalls))

InitGame ==
    /\ guard = NewGuard(0, 0, Route)
    /\ player = [position |-> <<612, 0>>, noise_level |-> 0, is_crouching |-> FALSE]
    /\ last = NoCall
    /\ thief = NewPlayer(0, 0)
    /\ LootParked
    /\ game = NewGame
    /\ ExtrasParked

GameStep(gm) ==
    /\ game.running
    /\ game' = gm
    /\ UNCHANGED <<guard, player, last, thief, lootVars, extras>>

\* one frame of Game.run while playing
GameUpdate ==
    /\ game.state = "PLAYING"
    /\ game.time < MaxTicks * 100
    /\ \E dt \in GameDts, keys \in KeySets, hover \in Hovers :
          /\ ExactTick(game, dt, keys)
          /\ \E gm \in {game_update(game, dt, keys, hover)} : GameStep(gm)

\* a frame of Game.run outside play: update returns at once
GameIdle ==
    /\ game.state # "PLAYING"
    /\ \E dt \in GameDts, keys \in KeySets, hover \in Hovers :
          GameStep(game_update(game, dt, keys, hover))

\* handle_events: K_RETURN
KeyReturn ==
    GameStep(IF game.state = "MENU" THEN start_game(game)
             ELSE IF game.state \in {"GAME_OVER", "VICTORY"} THEN [game EXCEPT !.state = "MENU"]
             ELSE game)

\* handle_events: K_ESCAPE
KeyEscape ==
    GameStep(IF game.state = "PLAYING" THEN [game EXCEPT !.state = "PAUSED"]
             ELSE IF game.state = "PAUSED" THEN [game EXCEPT !.state = "PLAYING"]
             ELSE IF game.state = "MENU" THEN [game EXCEPT !.running = FALSE]
             ELSE game)

\* handle_events: pygame.QUIT
Quit == GameStep([game EXCEPT !.running = FALSE])

NextGame == GameUpdate \/ GameIdle \/ KeyReturn \/ KeyEscape \/ Quit

SpecGame == InitGame /\ [][NextGame]_vars

(***************************************************************************)
(* The end of a game: one or two loot items are left, the first guard is   *)
(* alerted and chases the player along the row y = 200, on which the loot  *)
(* item (400, 200) hovers.  The guard's rect does not meet the player's:   *)
(* a tick that ends with an alerted guard on the player ends the game.     *)
(***************************************************************************)
EndTicks == 2

\* the game time at which the end game is entered, in ms
EndgameStart == 600 * 100

\* left, and left running, besides the keys of KeySets
EndKeys ==
    { NoKeys, [NoKeys EXCEPT !.dx = -1], [NoKeys EXCEPT !.dx = -1, !.shift = TRUE],
      [NoKeys EXCEPT !.dx = 1] }

\* the sum of the values of loot items
RECURSIVE ValueSum(_)
ValueSum(items) == IF items = <<>> THEN 0 ELSE Head(items).value + ValueSum(Tail(items))

\* the game after 60 s of play: the player at (px, 200) with taken loot
\* items, the first guard alerted at (gx, 200), the loot items left
Endgame(px, gx, left) ==
    LET played == start_game(NewGame)
        taken == SelectSeq(played.loots, LAMBDA l : l \notin left)
    IN  [played EXCEPT
           !.time = EndgameStart,
           !.score = ValueSum(taken),
           !.player = [NewMainPlayer(px, 200) EXCEPT !.loot_count = Len(taken)],
           !.guards[1] = [played.guards[1] EXCEPT !.position = <<gx, 200>>,
                                                  !.rect_center = <<gx, 200>>,
                                                  !.velocity = <<(main_guard_speed * 3) \div 2, 0>>,
                                                  !.alert_level = 200,
                                                  !.alerted = TRUE],
           !.loots = SelectSeq(played.loots, LAMBDA l : l \in left)]

Endgames ==
    LET all == start_game(NewGame).loots
    IN  { Endgame(px, gx, left) : px \in {440, 460}, gx \in {340, 380},
                                   left \in { {all[2]}, {all[2], all[5]} } }

InitEndgame ==
    /\ guard = NewGuard(0, 0, Route)
    /\ player = [position |-> <<612, 0>>, noise_level |-> 0, is_crouching |-> FALSE]
    /\ last = NoCall
    /\ thief = NewPlayer(0, 0)
    /\ LootParked
    /\ game \in Endgames
    /\ ExtrasParked

\* one frame of Game.run while playing the end game
EndgameUpdate ==
    /\ game.state = "PLAYING"
    /\ game.time >= EndgameStart
    /\ game.time < EndgameStart + EndTicks * 100
    /\ \E dt \in GameDts, keys \in EndKeys, hover \in Hovers :
          /\ ExactTick(game, dt, keys)
          /\ \E gm \in {game_update(game, dt, keys, hover)} : GameStep(gm)

NextEndgame == EndgameUpdate \/ GameIdle \/ KeyReturn \/ KeyEscape \/ Quit

SpecEndgame == InitEndgame /\ [][NextEndgame]_vars

(***************************************************************************)
(* Map import: load_map is called with map files of two columns and one or *)
(* two rows.  Tile ID 2 lies in the ranges of both tilesets, 4 is an entry *)
(* without a type, 5 an entry of a type that has no group of its own, and  *)
(* 9 lies in no range.                                                     *)
(***************************************************************************)
Tilesets ==
    << [firstgid |-> 1,
        tiles |-> << [type |-> "wall", name |-> "brick"],
                     [type |-> "floor", name |-> "plank"] >>],
       [firstgid |-> 2,
        tiles |-> << [type |-> "loot", name |-> "gem"],
                     [type |-> "door", name |-> "gate"],
                     [name |-> "crate"],
                     [type |-> "plant", name |-> "fern"] >>] >>

TileIds == {0, 2, 3, 9}

MapWidth == 2

MapHeights == {1, 2}

\* the arrays of the first layer: every array over TileIds of up to
\* MapWidth * 2 entries, so all lengths from missing cells to a full grid
RECURSIVE ArraysUpTo(_)
ArraysUpTo(n) ==
    IF n = 0 THEN {<<>>}
    ELSE ArraysUpTo(n - 1)
           \cup { Append(a, t) : a \in { b \in ArraysUpTo(n - 1) : Len(b) = n - 1 }, t \in TileIds }

\* the layers after the first: none, a layer without a data array, a short
\* array and full arrays
MoreLayers ==
    { <<>>,
      << [name |-> "objects"] >>,
      << [name |-> "objects", data |-> <<4>>] >>,
      << [name |-> "objects", data |-> <<1, 5, 0, 4>>] >> }

Maps ==
    { [width |-> MapWidth, height |-> h,
       layers |-> << [name |-> "walls", data |-> a] >> \o more,
       tilesets |-> Tilesets] :
          h \in MapHeights, a \in ArraysUpTo(MapWidth * 2), more \in MoreLayers }
      \cup { EmptyDict, [width |-> MapWidth, height |-> 1] }

InitMap ==
    /\ guard = NewGuard(0, 0, Route)
    /\ player = [position |-> <<612, 0>>, noise_level |-> 0, is_crouching |-> FALSE]
    /\ last = NoCall
    /\ Parked

\* the maps a loader is given after its first
MapsAgain ==
    { EmptyDict,
      [width |-> MapWidth, height |-> 1,
       layers |-> << [name |-> "walls", data |-> <<3, 9>>] >>, tilesets |-> Tilesets] }

\* loader.load_map(path) on a new loader, for a file that holds one of the maps
LoadMap ==
    /\ loader = NewMapLoader
    /\ \E map_data \in Maps : loader' = load_map(loader, map_data)
    /\ UNCHANGED <<guard, player, last, thief, lootVars, game, probe, sentry, intruder, manager, ship>>

\* loader.load_map(path) on a loader that holds a map already
LoadMapAgain ==
    /\ loader # NewMapLoader
    /\ \E map_data \in MapsAgain : loader' = load_map(loader, map_data)
    /\ UNCHANGED <<guard, player, last, thief, lootVars, game, probe, sentry, intruder, manager, ship>>

NextMap == LoadMap \/ LoadMapAgain

SpecMap == InitMap /\ [][NextMap]_vars

(***************************************************************************)
(* Calls of the functions of logic/collision.py.                           *)
(***************************************************************************)
\* a wall across the x axis, a wall one pixel below it and a wall far away
WallRects ==
    { [left |-> 8, top |-> -10, width |-> 6, height |-> 20],
      [left |-> 8, top |-> 1, width |-> 6, height |-> 10],
      [left |-> -40, top |-> -40, width |-> 6, height |-> 6] }

SightEnds == { <<0, 0>>, <<7, 0>>, <<20, 0>>, <<-20, 0>>, <<0, -12>> }

CirclePoints == { <<x, y>> : x \in -6 .. 6, y \in {0, 3, 4} }

Centers == { <<0, 0>>, <<1, 0>> }

Radii == {-1, 0, 5}

InitCollision ==
    /\ guard = NewGuard(0, 0, Route)
    /\ player = [position |-> <<612, 0>>, noise_level |-> 0, is_crouching |-> FALSE]
    /\ last = NoCall
    /\ Parked

\* check_line_of_sight((0, 0), end_pos, walls)
CheckLineOfSight ==
    /\ \E end_pos \in SightEnds, walls \in SUBSET WallRects :
          probe' = [op |-> "check_line_of_sight", start_pos |-> Zero2, end_pos |-> end_pos,
                    walls |-> walls, ret |-> check_line_of_sight(Zero2, end_pos, walls)]
    /\ UNCHANGED <<guard, player, last, thief, lootVars, game, loader, sentry, intruder, manager, ship>>

\* check_point_in_circle(point, center, radius)
CheckPointInCircle ==
    /\ \E point \in CirclePoints, center \in Centers, radius \in Radii :
          probe' = [op |-> "check_point_in_circle", point |-> point, center |-> center,
                    radius |-> radius,
                    ret |-> check_point_in_circle(point, center, radius)]
    /\ UNCHANGED <<guard, player, last, thief, lootVars, game, loader, sentry, intruder, manager, ship>>

NextCollision == CheckLineOfSight \/ CheckPointInCircle

SpecCollision == InitCollision /\ [][NextCollision]_vars

(***************************************************************************)
(* One Guard of main.py, standing at the second point of the first route   *)
(* of create_level and facing right, updated with the players it may be    *)
(* handed: all of them are on the guard's row.                             *)
(***************************************************************************)
AlertCap == 210              \* updates are followed up to this alert_level, in halves

SentryDts == {200}

\* the players, as [x, noise_level in halves]: in view, near enough to be
\* heard, loud enough to be heard, behind the wall at x = 600, behind the
\* guard, and out of range
IntruderPoses == { <<560, 0>>, <<540, 0>>, <<560, 200>>, <<640, 0>>, <<400, 0>>, <<300, 0>> }

Intruders == { [NewMainPlayer(q[1], 200) EXCEPT !.noise_level = q[2]] : q \in IntruderPoses }

InitSentry ==
    /\ guard = NewGuard(0, 0, Route)
    /\ player = [position |-> <<612, 0>>, noise_level |-> 0, is_crouching |-> FALSE]
    /\ last = NoCall
    /\ thief = NewPlayer(0, 0)
    /\ LootParked
    /\ game = NewGame
    /\ loader = NewMapLoader
    /\ probe = NoProbe
    /\ manager = Absent
    /\ ship = Absent
    /\ sentry = NewMainGuard(500, 200, <<>>)
    /\ intruder \in Intruders

\* sentry.update(dt, player, walls), with the walls of the level or none
SentryUpdate ==
    /\ sentry.alert_level < AlertCap
    /\ \E dt \in SentryDts, p \in Intruders, walls \in {{}, LevelWalls} :
          /\ ExactGuard(sentry, dt, p)
          /\ \E r \in {main_guard_update(sentry, dt, p, walls)} :
                sentry' = r.guard /\ intruder' = r.player
    /\ UNCHANGED <<guard, player, last, thief, lootVars, game, loader, probe, manager, ship>>

NextSentry == SentryUpdate

SpecSentry == InitSentry /\ [][NextSentry]_vars

(***************************************************************************)
(* A player and the inputs it is given: either the Player of               *)
(* logic/player.py, moved, toggled and updated by its caller, or the       *)
(* Player of main.py, which reads the keys in its update.  main.py does    *)
(* not import logic/player.py: a program has one of the two.               *)
(***************************************************************************)
\* pygame.key.get_pressed(): idle, right, running right, crouching right
RowKeys ==
    { NoKeys, [NoKeys EXCEPT !.dx = 1], [NoKeys EXCEPT !.dx = 1, !.shift = TRUE],
      [NoKeys EXCEPT !.dx = 1, !.ctrl = TRUE] }

InitPlayers ==
    /\ guard = NewGuard(0, 0, Route)
    /\ player = [position |-> <<612, 0>>, noise_level |-> 0, is_crouching |-> FALSE]
    /\ last = NoCall
    /\ thief = NewPlayer(0, 0)
    /\ LootParked
    /\ game = NewGame
    /\ loader = NewMapLoader
    /\ probe = NoProbe
    /\ manager = Absent
    /\ ship = Absent
    /\ sentry = Absent
    /\ intruder \in {Absent, NewMainPlayer(100, 100)}

ThiefCall(t) ==
    /\ intruder = Absent
    /\ thief' = t
    /\ UNCHANGED <<guard, player, last, lootVars, game, extras>>

\* thief.toggle_crouch()
ThiefToggleCrouch == ThiefCall(toggle_crouch(thief))

\* thief.toggle_run()
ThiefToggleRun == ThiefCall(toggle_run(thief))

\* thief.start_looting()
ThiefStartLooting == ~thief.is_looting /\ ThiefCall(start_looting(thief))

\* thief.stop_looting()
ThiefStopLooting == thief.is_looting /\ ThiefCall(stop_looting(thief))

\* thief.move(direction_x, 0) and thief.update(dt, walls)
ThiefStep == intruder = Absent /\ (ThiefMove \/ ThiefUpdate)

\* intruder.update(dt, walls) with the keys held
IntruderUpdate ==
    /\ intruder # Absent
    /\ \E keys \in RowKeys, dt \in GameDts :
          /\ WholeStep(KeyVelocity(keys), dt)
          /\ intruder' = main_player_update(intruder, keys, dt, LevelWalls)
    /\ UNCHANGED <<guard, player, last, thief, lootVars, game, loader, probe, sentry, manager, ship>>

NextPlayers ==
    \/ ThiefToggleCrouch \/ ThiefToggleRun \/ ThiefStartLooting \/ ThiefStopLooting
    \/ ThiefStep \/ IntruderUpdate

SpecPlayers == InitPlayers /\ [][NextPlayers]_vars

(***************************************************************************)
(* A LootManager on its own: generate_loot and collect_loot calls.         *)
(***************************************************************************)
MaxLoot == 6

LootTypeArgs == {None, "CASH"}

ValueArgs == {NoValue, <<150>>, <<-100>>}

\* types random.choices can give: every weight is positive
RandomTypes == {"CASH", "DOCUMENT"}

ForeignValues == {300}

InitManager ==
    /\ guard = NewGuard(0, 0, Route)
    /\ player = [position |-> <<612, 0>>, noise_level |-> 0, is_crouching |-> FALSE]
    /\ last = NoCall
    /\ thief = NewPlayer(0, 0)
    /\ LootParked
    /\ game = NewGame
    /\ loader = NewMapLoader
    /\ probe = NoProbe
    /\ sentry = Absent
    /\ intruder = Absent
    /\ ship = Absent
    /\ manager = NewLootManager

\* manager.generate_loot(x, y, loot_type, value)
GenerateLoot ==
    /\ manager # Absent
    /\ Len(manager.items) < MaxLoot
    /\ \E loot_type \in LootTypeArgs, value \in ValueArgs :
         \E picked \in (IF loot_type = None THEN RandomTypes ELSE {None}) :
           \E drawn \in (IF value # NoValue THEN {0}
                         ELSE LET range == value_range(IF loot_type = None THEN picked
                                                        ELSE loot_type)
                              IN  {range[1], range[2]}) :
              manager' = generate_loot(manager, loot_type, value,
                                       [loot_type |-> picked, value |-> drawn])
    /\ UNCHANGED <<guard, player, last, thief, lootVars, game, loader, probe, sentry, intruder,
                   ship>>

\* manager.collect_loot(loot_item), for an item the manager has made or a
\* foreign one
CollectLoot ==
    /\ manager # Absent
    /\ \E loot_item \in 0..Len(manager.items), foreign_value \in ForeignValues :
          manager' = collect_loot(manager, loot_item, foreign_value).manager
    /\ UNCHANGED <<guard, player, last, thief, lootVars, game, loader, probe, sentry, intruder,
                   ship>>

NextManager == GenerateLoot \/ CollectLoot

SpecManager == InitManager /\ [][NextManager]_vars

(***************************************************************************)
(* Ship (rocket_rumble/logic/ship.py) and GameManager.fire_weapon.  Times  *)
(* are in milliseconds, lengths in pixels, boost fuel in thousandths.  No  *)
(* thrust is applied, so velocity and acceleration stay zero.              *)
(***************************************************************************)
ShipTypes == {"SPEEDSTER", "TANK", "SNIPER", "BALANCED"}

\* SHIP_CONFIGS[ship_type]['fire_rate']
fire_rate_of(ship_type) ==
    CASE ship_type = "SPEEDSTER" -> 300
      [] ship_type = "TANK" -> 500
      [] ship_type = "SNIPER" -> 800
      [] ship_type = "BALANCED" -> 400

\* Ship.__init__(x, y, ship_type)
NewShip(x, y, ship_type) ==
    [ship_type |-> ship_type,
     position |-> <<x, y>>,
     velocity |-> <<0, 0>>,
     acceleration |-> <<0, 0>>,
     fire_rate |-> fire_rate_of(ship_type),
     fire_timer |-> 0,
     is_boosting |-> FALSE,
     boost_fuel |-> 100000,
     max_boost_fuel |-> 100000,
     boost_regen_rate |-> 10,
     abilities |-> [missile |-> [ready |-> TRUE, cooldown |-> 5000, timer |-> 0,
                                 active |-> FALSE, duration |-> 0],
                    shield |-> [ready |-> TRUE, cooldown |-> 8000, timer |-> 0,
                                active |-> FALSE, duration |-> 3000],
                    emp |-> [ready |-> TRUE, cooldown |-> 12000, timer |-> 0,
                             active |-> FALSE, duration |-> 0]]]

\* the abilities loop of Ship.update for one ability
update_ability(ability, dt) ==
    IF ~ability.ready
    THEN IF ability.timer + dt >= ability.cooldown
         THEN [ability EXCEPT !.ready = TRUE, !.timer = 0]
         ELSE [ability EXCEPT !.timer = @ + dt]
    ELSE ability

\* the shield part of Ship.update
update_shield(shield, dt) ==
    IF shield.active
    THEN IF shield.timer + dt >= shield.duration
         THEN [shield EXCEPT !.active = FALSE, !.ready = FALSE, !.timer = 0]
         ELSE [shield EXCEPT !.timer = @ + dt]
    ELSE shield

\* Ship.update(dt, arena_rect); the particle lists are empty
ship_update(s, dt, arena_rect) ==
    LET moved == <<s.position[1] + (s.velocity[1] * dt) \div 1000,
                   s.position[2] + (s.velocity[2] * dt) \div 1000>>
        faster == <<s.velocity[1] + (s.acceleration[1] * dt) \div 1000,
                    s.velocity[2] + (s.acceleration[2] * dt) \div 1000>>
    IN  [s EXCEPT
           !.position = <<Max(0, Min(arena_rect[1], moved[1])),
                          Max(0, Min(arena_rect[2], moved[2]))>>,
           !.velocity = <<(faster[1] * 98) \div 100, (faster[2] * 98) \div 100>>,
           !.boost_fuel = IF ~s.is_boosting /\ s.boost_fuel < s.max_boost_fuel
                          THEN Min(s.max_boost_fuel, s.boost_fuel + s.boost_regen_rate * dt)
                          ELSE @,
           !.abilities = [missile |-> update_ability(s.abilities.missile, dt),
                          shield |-> update_shield(update_ability(s.abilities.shield, dt), dt),
                          emp |-> update_ability(s.abilities.emp, dt)]]

\* Ship.fire_primary(): the ship afterwards and the value returned
fire_primary(s) ==
    IF s.fire_timer <= 0
    THEN [ship |-> [s EXCEPT !.fire_timer = s.fire_rate], ret |-> TRUE]
    ELSE [ship |-> s, ret |-> FALSE]

\* GameManager.fire_weapon(ship): the ship afterwards and whether a Laser
\* was made and returned
fire_weapon(s) ==
    LET fired == fire_primary(s)
    IN  [ship |-> fired.ship, laser |-> fired.ret]

(***************************************************************************)
(* A ship on its own.  Beside the Ship object the state records how many   *)
(* lasers it has fired, the update time since the last one and the last    *)
(* call.                                                                   *)
(***************************************************************************)
SinceCap == 1000

MaxShots == 2

ShipDts == {16, 100, 500}

Arenas == {<<800, 600>>, <<150, 100>>}

InitShip ==
    /\ guard = NewGuard(0, 0, Route)
    /\ player = [position |-> <<612, 0>>, noise_level |-> 0, is_crouching |-> FALSE]
    /\ last = NoCall
    /\ thief = NewPlayer(0, 0)
    /\ LootParked
    /\ game = NewGame
    /\ loader = NewMapLoader
    /\ probe = NoProbe
    /\ sentry = Absent
    /\ intruder = Absent
    /\ manager = Absent
    /\ \E ship_type \in ShipTypes :
          ship = [obj |-> NewShip(200, 300, ship_type), shots |-> 0, since |-> 0,
                  call |-> "none"]

\* ship.update(dt, arena_rect)
ShipUpdate ==
    /\ ship # Absent
    /\ ship.since < SinceCap
    /\ \E dt \in ShipDts, arena_rect \in Arenas :
          ship' = [ship EXCEPT !.obj = ship_update(ship.obj, dt, arena_rect),
                               !.since = IF ship.shots > 0 THEN @ + dt ELSE @,
                               !.call = "update"]
    /\ UNCHANGED <<guard, player, last, thief, lootVars, game, loader, probe, sentry, intruder,
                   manager>>

\* game_manager.fire_weapon(ship)
FireWeapon ==
    /\ ship # Absent
    /\ ship.shots < MaxShots
    /\ \E r \in {fire_weapon(ship.obj)} :
          ship' = [obj |-> r.ship,
                   shots |-> IF r.laser THEN ship.shots + 1 ELSE ship.shots,
                   since |-> IF r.laser THEN 0 ELSE ship.since,
                   call |-> IF r.laser THEN "fired" ELSE "refused"]
    /\ UNCHANGED <<guard, player, last, thief, lootVars, game, loader, probe, sentry, intruder,
                   manager>>

NextShip == ShipUpdate \/ FireWeapon

SpecShip == InitShip /\ [][NextShip]_vars

(***************************************************************************)
(* Properties.  Trials is every call update(dt, player or None, walls)     *)
(* that Next offers in the current state, with its outcome.                *)
(***************************************************************************)
Trials ==
    UNION { { [dt |-> dt, hasPlayer |-> hp,
               u |-> update(guard, dt, hp, player, Walls, rnd)] :
                 rnd \in Rnds(guard.state, hp) } :
            dt \in Dts, hp \in BOOLEAN }

\* C1: from any of the five states, an update whose detection check succeeds
\* ends ALERTED, with alert_position reading the player's position,
\* state_timer 0, current_speed run_speed and suspicion_level 100
C1_DetectionAlerts ==
    \A t \in Trials :
        t.u.detected =>
            /\ t.u.done.state = "ALERTED"
            /\ t.u.done.alert_position.kind # "none"
            /\ PosValue(t.u.done.alert_position, player) = player.position
            /\ t.u.done.state_timer = 0
            /\ t.u.done.current_speed = run_speed
            /\ t.u.done.suspicion_level = 100

C1_Witness ==
    /\ last.op = "update" /\ last.detected /\ last.pre = "INVESTIGATING"
    /\ guard.state = "ALERTED" /\ guard.alert_position = PlayerRef

(***************************************************************************)
(* Properties of the frame loop.                                           *)
(***************************************************************************)
FrameTrials ==
    UNION { { [dt |-> dt, u |-> update(guard, dt, FALSE, player, {}, rnd)] :
                 rnd \in Rnds(guard.state, FALSE) } :
            dt \in {ShortDt, LongDt} }

Waypoint(k) == guard.patrol_points[k + 1]

\* the guard is on patrol within 2 px of waypoint k
Visits(k) ==
    /\ guard.state = "PATROLLING"
    /\ Length(VSub(Waypoint(k), guard.position)) < ArriveDist

\* an arrival starts the wait and turns to the next waypoint; a waiting guard
\* stands still and counts the wait down by dt
ArriveAndWait ==
    \A t \in FrameTrials :
        guard.state = "PATROLLING" =>
            IF guard.wait_timer > 0
            THEN /\ t.u.done.position = guard.position
                 /\ t.u.done.wait_timer = guard.wait_timer - t.dt
                 /\ t.u.done.current_patrol_point = guard.current_patrol_point
            ELSE IF Visits(guard.current_patrol_point)
            THEN /\ t.u.done.wait_timer = patrol_wait_time
                 /\ t.u.done.current_patrol_point
                        = (guard.current_patrol_point + 1) % Len(guard.patrol_points)
            ELSE /\ t.u.done.current_patrol_point = guard.current_patrol_point
                 /\ t.u.done.velocity
                        = <<Sign(Waypoint(guard.current_patrol_point)[1] - guard.position[1]), 0>>

\* C2 as stated: whatever the positive frame times, the patrolling guard visits
\* both waypoints of [(0,0),(100,0)] again and again, waiting at each
C2_PatrolAnyFrames ==
    /\ []ArriveAndWait
    /\ []<>Visits(0)
    /\ []<>Visits(1)

\* C2 amended: with frame times whose walking step stays below 4 px (twice
\* the arrival radius) from some frame on, the guard visits both waypoints
\* again and again; every arrival starts a wait of 2.0 s in which it stands
\* still, and then it heads for the other waypoint
C2_PatrolShortFrames ==
    /\ []ArriveAndWait
    /\ (<>[][ShortFrame]_vars) => ([]<>Visits(0) /\ []<>Visits(1))

C2_Witness ==
    /\ last.op = "update" /\ guard.state = "PATROLLING"
    /\ guard.current_patrol_point = 0 /\ guard.wait_timer = patrol_wait_time
    /\ Length(VSub(Waypoint(1), guard.position)) < ArriveDist

(***************************************************************************)
(* Properties of single calls, checked in every reachable state.           *)
(***************************************************************************)
\* the unit vector from position a toward position b on the line y = 0
Toward(a, b) == <<Sign(b[1] - a[1]), Sign(b[2] - a[2])>>

Distance(a, b) == Length(VSub(b, a))

\* C3 as stated: a SUSPICIOUS guard that does not detect the player becomes
\* PATROLLING with state_timer 0 once 3.0 s have elapsed, and stays
\* SUSPICIOUS before
C3_SuspiciousThreeSeconds ==
    \A t \in Trials :
        (guard.state = "SUSPICIOUS" /\ ~t.u.detected) =>
            IF guard.state_timer + t.dt >= SuspiciousTime
            THEN t.u.done.state = "PATROLLING" /\ t.u.done.state_timer = 0
            ELSE t.u.done.state = "SUSPICIOUS"

\* C3 amended: it becomes PATROLLING with state_timer 0 on the first update
\* that finds more than 3.0 s elapsed, and stays SUSPICIOUS while the elapsed
\* time is 3.0 s or less
C3_SuspiciousTimeout ==
    \A t \in Trials :
        (guard.state = "SUSPICIOUS" /\ ~t.u.detected) =>
            IF guard.state_timer + t.dt > SuspiciousTime
            THEN t.u.done.state = "PATROLLING" /\ t.u.done.state_timer = 0
            ELSE /\ t.u.done.state = "SUSPICIOUS"
                 /\ t.u.done.state_timer = guard.state_timer + t.dt

C3_Witness ==
    /\ last.op = "update" /\ last.pre = "SUSPICIOUS" /\ ~last.detected
    /\ guard.state = "PATROLLING" /\ guard.state_timer = 0

\* C4: an INVESTIGATING guard with a last-known position heads for it, becomes
\* SUSPICIOUS (alert_position None, state_timer 0) on the first update that
\* finds it closer than 5 px, and stays INVESTIGATING before, unless it
\* detects the player
C4_InvestigateUntilReached ==
    \A t \in Trials :
        (guard.state = "INVESTIGATING" /\ guard.alert_position.kind # "none"
            /\ ~t.u.detected) =>
            LET target == PosValue(guard.alert_position, player)
            IN  IF Distance(guard.position, target) < InvestigateDist
                THEN /\ t.u.done.state = "SUSPICIOUS"
                     /\ t.u.done.alert_position = NoPos
                     /\ t.u.done.state_timer = 0
                ELSE /\ t.u.done.state = "INVESTIGATING"
                     /\ t.u.handled.velocity = Toward(guard.position, target)

\* C5: update() on an ALERTED guard without a player reference does not raise
\* and leaves the guard SEARCHING with state_timer 0
C5_AlertedWithoutPlayer ==
    \A t \in Trials :
        (guard.state = "ALERTED" /\ ~t.hasPlayer) =>
            /\ ~t.u.raised
            /\ t.u.done.state = "SEARCHING"
            /\ t.u.done.state_timer = 0

C5_Witness ==
    /\ last.op = "update" /\ last.pre = "ALERTED" /\ ~last.hasPlayer /\ ~last.raised
    /\ guard.state = "SEARCHING" /\ guard.state_timer = 0

\* a SEARCHING guard becomes PATROLLING (state_timer 0, walk speed) exactly on
\* the updates that find "elapsed" true, and stays SEARCHING otherwise
SearchEnds(elapsed(_)) ==
    \A t \in FrameTrials :
        guard.state = "SEARCHING" =>
            IF elapsed(guard.state_timer + t.dt)
            THEN /\ t.u.done.state = "PATROLLING"
                 /\ t.u.done.state_timer = 0
                 /\ t.u.done.current_speed = walk_speed
            ELSE t.u.done.state = "SEARCHING"

\* C6 as stated: the search ends once 10.0 s have elapsed
C6_SearchTenSeconds == SearchEnds(LAMBDA e : e >= SearchTime)

\* C6 amended: the search ends on the first update that finds more than
\* 10.0 s elapsed, the guard stays SEARCHING while the elapsed time is 10.0 s
\* or less, and with positive frame times it does return to PATROLLING
C6_SearchTimeout ==
    /\ []SearchEnds(LAMBDA e : e > SearchTime)
    /\ (guard.state = "SEARCHING") ~> (guard.state = "PATROLLING")

C6_Witness ==
    /\ last.op = "update" /\ last.pre = "SEARCHING"
    /\ guard.state = "PATROLLING" /\ guard.state_timer = 0
    /\ guard.current_speed = walk_speed

\* C7: an update whose handler runs in SUSPICIOUS, or leaves the guard
\* SUSPICIOUS, does not move the guard
C7_SuspiciousStandsStill ==
    \A t \in Trials :
        (~t.u.raised /\ (guard.state = "SUSPICIOUS" \/ t.u.handled.state = "SUSPICIOUS")) =>
            t.u.done.position = guard.position

\* C8: every update of an ALERTED guard with a player sets velocity to the
\* unit vector toward the player's current position and current_speed to
\* run_speed, and unless a wall blocks the step the guard ends no farther
\* from the player than it started
C8_ChaseClosesIn ==
    \A t \in Trials :
        (guard.state = "ALERTED" /\ t.hasPlayer) =>
            /\ ~t.u.raised
            /\ t.u.handled.velocity = Toward(guard.position, player.position)
            /\ Length(t.u.handled.velocity) = 1
            /\ t.u.handled.current_speed = run_speed
            /\ ~collisions(t.u.handled, t.dt, Walls) =>
                   Distance(t.u.done.position, player.position)
                       <= Distance(guard.position, player.position)

\* the angle between two directions, in [0, 180] degrees
AngleBetween(a, b) ==
    LET d == Abs(a - b) % 360000 IN IF d > 180000 THEN 360000 - d ELSE d

\* the player is within view_distance of g and within view_angle / 2 of its
\* view_direction
InView(g, p) ==
    /\ Distance(g.position, p.position) <= view_distance
    /\ 2 * AngleBetween(atan2_degrees(p.position[2] - g.position[2],
                                      p.position[1] - g.position[1]),
                        g.view_direction) <= view_angle

\* the fields a detection changes
Alertable(g) ==
    <<g.state, g.alert_position, g.state_timer, g.current_speed, g.suspicion_level>>

\* C9: the check detects the player only within view_distance and within
\* view_angle / 2 of view_direction; otherwise it detects nothing and leaves
\* state, alert_position, state_timer, current_speed and suspicion_level alone
C9_DetectionOnlyInView ==
    \A t \in Trials :
        (t.hasPlayer /\ ~t.u.raised) =>
            /\ t.u.detected => InView(t.u.moved, player)
            /\ ~InView(t.u.moved, player) =>
                   ~t.u.detected /\ Alertable(t.u.done) = Alertable(t.u.moved)

C9_Witness ==
    /\ last.op = "update" /\ last.hasPlayer /\ ~last.raised /\ ~last.detected
    /\ ~InView(guard, player)
    /\ Distance(guard.position, player.position) <= view_distance
    /\ guard.state = "SUSPICIOUS"

\* C10: a player at distance 0 with noise level 0 and not crouching is detected
\* with probability 1.0: whatever view_direction and the draw, the update ends
\* ALERTED
C10_PointBlankDetected ==
    \A t \in Trials :
        (t.hasPlayer /\ ~t.u.raised /\ t.u.moved.position = player.position
            /\ player.noise_level = 0 /\ ~player.is_crouching) =>
            /\ detection_chance(0, player).num = detection_chance(0, player).den
            /\ t.u.detected
            /\ t.u.done.state = "ALERTED"

\* the noise levels of a player, from silent to loudest
NoiseLevels == {0, 50, 100}

\* every player standing at distance d of position pos on the line y = 0
PlayersAt(pos, d) ==
    { [position |-> <<pos[1] + side * d, pos[2]>>, noise_level |-> n, is_crouching |-> c] :
          side \in {-1, 1}, n \in NoiseLevels, c \in BOOLEAN }

\* C11: a player at distance exactly view_distance has detection probability
\* 0.0 and is not detected in that tick, whatever the noise level, the crouch
\* flag, the view direction and the draw
C11_EdgeNeverDetected ==
    /\ \A t \in Trials :
          (t.hasPlayer /\ ~t.u.raised
              /\ Distance(t.u.moved.position, player.position) = view_distance) =>
              /\ detection_chance(view_distance, player).num = 0
              /\ ~t.u.detected
              /\ t.u.done = t.u.moved
    /\ \A p \in PlayersAt(guard.position, view_distance), draw \in 0 .. RandDen - 1 :
          /\ detection_chance(Distance(guard.position, p.position), p).num = 0
          /\ ~detects(guard, p, draw)
          /\ check_player_detection(guard, p, draw) = guard

C11_Witness ==
    /\ last.op = "update" /\ last.hasPlayer /\ ~last.raised /\ ~last.detected
    /\ Distance(guard.position, player.position) = view_distance
    /\ InView(guard, player)
    /\ player.noise_level = 100 /\ ~player.is_crouching

\* C12: no call of update raises, whatever the guard state, dt, the obstacles
\* and the player position
C12_UpdateNeverRaises ==
    \A t \in Trials : ~t.u.raised

\* C13: a guard created with an empty or missing route patrols the single
\* point of its spawn position: through any sequence of PATROLLING updates it
\* stays where it was created, its waypoint index stays 0, and no update raises
C13_EmptyRouteStandsStill ==
    /\ Len(guard.patrol_points) = 1
    /\ guard.position = guard.patrol_points[1]
    /\ guard.position[1] \in Spawns
    /\ guard.velocity = Zero2
    /\ guard.current_patrol_point = 0
    /\ ~last.raised

C13_Witness ==
    /\ last.op = "update" /\ last.pre = "PATROLLING" /\ guard.state = "PATROLLING"
    /\ guard.position = <<54, 0>> /\ guard.wait_timer < 0
    /\ guard.state_timer = TimerCap

(***************************************************************************)
(* Properties of the entity kinematics.                                    *)
(***************************************************************************)
\* every call guard.update(dt, None, Obstacles) offered in the current state
GuardSteps ==
    UNION { { [dt |-> dt, u |-> update(guard, dt, FALSE, player, Obstacles, rnd)] :
                 rnd \in Rnds(guard.state, FALSE) } :
            dt \in {ShortDt, LongDt} }

\* the call thief.update(dt, Obstacles), when it is offered
ThiefSteps == IF OnGrid(thief) THEN {player_update(thief, Obstacles)} ELSE {}

Intersects(rect, walls) == \E w \in walls : colliderect(rect, w)

\* C14: an update whose moved bounding rect intersects an obstacle leaves the
\* entity at its pre-tick position with zero velocity, for guard and player
C14_AllOrNothing ==
    /\ \A t \in GuardSteps :
          Intersects(RectOf(Center(Stepped(t.u.handled, t.dt))), Obstacles) =>
              t.u.done.position = guard.position /\ t.u.done.velocity = Zero2
    /\ \A u \in ThiefSteps :
          Intersects(u.moved_rect, Obstacles) =>
              u.done.position = thief.position /\ u.done.velocity = Zero2

\* C15: an entity whose bounding rect is clear of the obstacles at the start
\* has its bounding rect clear of them after every update
C15_NoPenetration ==
    /\ ~Intersects(RectOf(guard.rect_center), Obstacles)
    /\ ~Intersects(PlayerRect(thief.rect_center), Obstacles)

\* C16: after every update the rect center is the position truncated to whole
\* pixels, and the position itself is the pre-tick position (rollback) or the
\* pre-tick position plus the exact displacement, fraction included
C16_RectFollowsPosition ==
    /\ guard.rect_center = Center(guard.position)
    /\ thief.rect_center = PlayerCenter(thief.position)
    /\ \A t \in GuardSteps :
          /\ t.u.done.rect_center = Center(t.u.done.position)
          /\ t.u.done.position =
                 IF collisions(t.u.handled, t.dt, Obstacles)
                 THEN guard.position ELSE Stepped(t.u.handled, t.dt)
    /\ \A u \in ThiefSteps :
          /\ u.done.rect_center = PlayerCenter(u.done.position)
          /\ u.done.position =
                 IF u.hit THEN thief.position ELSE VAdd(thief.position, Limited(thief))

C16_Witness ==
    /\ last.op = "update" /\ last.collided
    /\ guard.position[1] % 4 # 0
    /\ guard.rect_center = <<IntPx(guard.position[1]), 0>>
    /\ thief.position[1] % Grid # 0
    /\ thief.velocity = Zero2
    /\ thief.rect_center = <<TruncDiv(thief.position[1], Grid), 0>>

(***************************************************************************)
(* Properties of the loot item.                                            *)
(***************************************************************************)
\* C18: at every value, CASH has a strictly smaller steal duration than any
\* other type and ARTIFACT a strictly larger one; for one type the steal
\* duration is strictly increasing in the value
C18_StealTimeOrdering ==
    /\ item.steal_time = StealTimes[item.loot_type, item.value]
    /\ \A other \in LootTypes \ {"CASH"} :
          FLt(StealTimes["CASH", item.value], StealTimes[other, item.value])
    /\ \A other \in LootTypes \ {"ARTIFACT"} :
          FLt(StealTimes[other, item.value], StealTimes["ARTIFACT", item.value])
    /\ \A value \in Values :
          value < item.value => FLt(StealTimes[item.loot_type, value], item.steal_time)

C18_Witness ==
    /\ item.loot_type = "ARTIFACT" /\ item.value = 200
    /\ item.steal_time = FMulSmall(StealTimes["CASH", 200], 4, 0)
    /\ returned.op = "update_stealing" /\ returned.ret

\* C19: start_stealing on an item that is being stolen returns False and
\* leaves being_stolen and steal_progress as they were, whatever the progress
C19_SecondStartFails ==
    item.being_stolen =>
        /\ ~start_stealing(item).ret
        /\ start_stealing(item).item.being_stolen
        /\ start_stealing(item).item.steal_progress = item.steal_progress

C19_Witness ==
    /\ returned.op = "start_stealing" /\ ~returned.ret
    /\ item.being_stolen /\ ~IsZero(item.steal_progress)
    /\ item.steal_progress = returned.before

\* C20: stop_stealing on an item being stolen returns True, clears the flag
\* and resets steal_progress to 0, and a steal started afterwards goes as the
\* first steal of a new item of that type and value does; on an item not
\* being stolen it returns False and changes nothing
C20_StopResets ==
    LET stopped == stop_stealing(item)
        again == start_stealing(stopped.item).item
    IN  IF item.being_stolen
        THEN /\ stopped.ret
             /\ ~stopped.item.being_stolen
             /\ stopped.item.steal_progress = FZero
             /\ again.being_stolen /\ again.steal_progress = FZero
             /\ \A dt \in LootDts :
                   update_stealing(again, dt)
                     = update_stealing(start_stealing(NewLoot(item.loot_type, item.value)).item,
                                       dt)
        ELSE ~stopped.ret /\ stopped.item = item

C20_Witness ==
    /\ returned.op = "stop_stealing" /\ returned.ret /\ ~IsZero(returned.before)
    /\ ~item.being_stolen /\ item.steal_progress = FZero

\* the update calls of one tick with n guards and m loot items in the groups
RECURSIVE CallsOf(_, _)
CallsOf(kind, n) == IF n = 0 THEN <<>> ELSE Append(CallsOf(kind, n - 1), <<kind, n>>)

\* C17: in a PLAYING tick Game.update updates the player once, then every
\* guard once, then every loot item once, in that order, and the guard updates
\* leave the player's position, noise level and crouch flag alone: every guard
\* is handed the player as its own update left it, and so is the loot loop
C17_TickOrderAndSnapshot ==
    game.state = "PLAYING" =>
      \A dt \in GameDts, keys \in KeySets, hover \in Hovers :
        ExactTick(game, dt, keys) =>
          LET after == game_update(game, dt, keys, hover)
              snapshot == Snapshot(main_player_update(game.player, keys, dt, LevelWalls))
          IN  /\ after.calls = <<<<"player", 1>>>> \o CallsOf("guard", Len(game.guards))
                                   \o CallsOf("loot", Len(game.loots))
              /\ Len(after.seen) = Len(game.guards)
              /\ \A i \in 1 .. Len(after.seen) : after.seen[i] = snapshot
              /\ Snapshot(after.player) = snapshot

\* a tick was played in which the player moved noisily past both guards'
\* updates and one of the five loot items was collected
C17_Witness ==
    /\ game.state = "PLAYING"
    /\ Len(game.calls) = 8
    /\ Len(game.seen) = 2
    /\ game.seen[1].noise_level > 0
    /\ Len(game.loots) = 4
    /\ game.score > 0

\* C21: whatever start_stealing, stop_stealing and update_stealing(dt) calls
\* were made, with dt >= 0, steal_progress is within [0, 100]
C21_ProgressInRange == FGe(FromInt(Complete, 0), item.steal_progress)

\* what update_stealing(dt) does to the item in any state: on an item that is
\* not being stolen it returns False and changes nothing; on one that is, it
\* adds (100 / steal_time) * dt to steal_progress, returns whether the sum has
\* reached 100 and leaves being_stolen set
UpdateStealingStep ==
    \A dt \in LootDts :
        LET r == update_stealing(item, dt)
        IN  IF item.being_stolen
            THEN /\ r.item = [item EXCEPT !.steal_progress =
                                FAdd(item.steal_progress,
                                     FMulSmall(FDiv(FromInt(Complete, 0), item.steal_time),
                                               dt.n, dt.k))]
                 /\ r.ret <=> FGe(r.item.steal_progress, FromInt(Complete, 0))
                 /\ r.item.being_stolen
            ELSE ~r.ret /\ r.item = item

\* the frame time accumulated since start_stealing, as a double
Elapsed == FromInt(returned.elapsed, -3)

MapLayers == Get(loader.map_data, "layers", <<>>)

LayerData(li) == Get(MapLayers[li], "data", <<>>)

Cells == 0 .. loader.width * loader.height - 1

\* all tiles of all groups
AllTiles == UNION { { loader.groups[g][n] : n \in 1 .. Len(loader.groups[g]) } : g \in GroupNames }

\* the tiles made from one cell of one layer, with the group each is in
TilesOf(li, idx) ==
    { gn \in UNION { {g} \X (1 .. Len(loader.groups[g])) : g \in GroupNames } :
        LET g == gn[1]
            n == gn[2]
        IN
        /\ loader.groups[g][n].layer = li
        /\ loader.groups[g][n].x = (idx % loader.width) * tile_size
        /\ loader.groups[g][n].y = (idx \div loader.width) * tile_size }

\* the tilesets whose ID range holds the tile ID
Holding(tile_id) ==
    { n \in 1 .. Len(Tilesets) :
        /\ Tilesets[n].firstgid <= tile_id
        /\ tile_id < Tilesets[n].firstgid + Len(Tilesets[n].tiles) }

\* C23: a tile ID within the range of some tileset resolves to the entry
\* tiles[t - firstgid] of the first such tileset in list order: the cell gets
\* one tile of that entry's type and name (type wall when the entry names
\* none); a tile ID of 0 creates no tile in any group
C23_TileResolves ==
    loader.map_data # EmptyDict =>
      \A li \in 1 .. Len(MapLayers) : \A idx \in Cells :
        idx < Len(LayerData(li)) =>
          LET t == LayerData(li)[idx + 1]
          IN  /\ t = 0 => TilesOf(li, idx) = {}
              /\ Holding(t) # {} =>
                   LET first == CHOOSE n \in Holding(t) : \A m \in Holding(t) : n <= m
                       entry == Tilesets[first].tiles[t - Tilesets[first].firstgid + 1]
                   IN  /\ Cardinality(TilesOf(li, idx)) = 1
                       /\ \A gn \in TilesOf(li, idx) :
                            /\ loader.groups[gn[1]][gn[2]].tile_type = Get(entry, "type", "wall")
                            /\ loader.groups[gn[1]][gn[2]].name = entry.name
                            /\ gn[1] = GroupOf(Get(entry, "type", "wall"))

\* a map was loaded in which the ID held by both tilesets made a floor tile
\* next to a cell of ID 0
C23_Witness ==
    /\ loader.map_data # EmptyDict
    /\ Len(MapLayers) = 1
    /\ LayerData(1) = <<0, 2, 3>>
    /\ Len(loader.groups["floor"]) = 1
    /\ loader.groups["floor"][1].name = "plank"
    /\ loader.groups["floor"][1].x = tile_size
    /\ Len(loader.groups["door"]) = 1

\* C24: a tile ID other than 0 that lies in no tileset's range is skipped: no
\* tile is made for its cell in any group
C24_UnknownTileSkipped ==
    loader.map_data # EmptyDict =>
      \A li \in 1 .. Len(MapLayers) : \A idx \in Cells :
        (/\ idx < Len(LayerData(li))
         /\ LayerData(li)[idx + 1] # 0
         /\ Holding(LayerData(li)[idx + 1]) = {}) => TilesOf(li, idx) = {}

\* C25: for every layer, whether its data array is missing, short or full,
\* the tiles made from it are those of the cells whose row-major index
\* y * width + x exists in the array (and holds an ID other than 0), one tile
\* each at (x * tile_size, y * tile_size); the cells past the end of the array
\* get no tile, and the layers after a short one are imported all the same
C25_ShortLayers ==
    loader.map_data # EmptyDict =>
      /\ \A li \in 1 .. Len(MapLayers) : \A idx \in Cells :
           Cardinality(TilesOf(li, idx))
             = IF idx < Len(LayerData(li)) /\ LayerData(li)[idx + 1] # 0 THEN 1 ELSE 0
      /\ Cardinality(AllTiles)
           = Cardinality({ <<li, idx>> \in (1 .. Len(MapLayers)) \X Cells :
                             idx < Len(LayerData(li)) /\ LayerData(li)[idx + 1] # 0 })

\* a map of four cells whose first layer has one entry and whose second layer
\* is full: one tile from the first layer, three from the second
C25_Witness ==
    /\ loader.map_data # EmptyDict
    /\ loader.width * loader.height = 4
    /\ Len(MapLayers) = 2
    /\ Len(LayerData(1)) = 1 /\ Len(LayerData(2)) = 4
    /\ Cardinality({ tile \in AllTiles : tile.layer = 1 }) = 1
    /\ Cardinality({ tile \in AllTiles : tile.layer = 2 }) = 3

\* the wall holds a point of the segment between two points on an axis
OnSegment(wall, a, b) ==
    /\ Min(a[1], b[1]) < wall.left + wall.width
    /\ wall.left <= (IF a[1] > b[1] THEN a[1] ELSE b[1])
    /\ Min(a[2], b[2]) < wall.top + wall.height
    /\ wall.top <= (IF a[2] > b[2] THEN a[2] ELSE b[2])

\* the segment passes through the wall: it meets it and ends outside of it
Crosses(wall, a, b) ==
    OnSegment(wall, a, b) /\ ~OnSegment(wall, a, a) /\ ~OnSegment(wall, b, b)

\* C26: check_line_of_sight returns True for every segment on which no
\* obstacle lies, a segment of no length included, and False for every
\* segment that crosses an obstacle wider than the sampling step
C26_LineOfSight ==
    probe.op = "check_line_of_sight" =>
        /\ (\A wall \in probe.walls : ~OnSegment(wall, probe.start_pos, probe.end_pos))
              => probe.ret
        /\ (\E wall \in probe.walls :
              /\ Crosses(wall, probe.start_pos, probe.end_pos)
              /\ wall.width > los_step /\ wall.height > los_step)
              => ~probe.ret

\* C27: check_point_in_circle returns False for a point whose distance from
\* the center is the radius exactly, True for a point strictly closer and
\* False for a point farther away
C27_PointInCircle ==
    probe.op = "check_point_in_circle" =>
        LET d2 == Dist2(probe.point, probe.center)
            whole == SqrtFrom(d2, 0)
        IN  /\ (probe.radius >= 0 /\ whole * whole = d2 /\ whole = probe.radius) => ~probe.ret
            /\ whole < probe.radius => probe.ret
            /\ (whole > probe.radius \/ (whole = probe.radius /\ whole * whole < d2))
                  => ~probe.ret

\* the point (3, 4) on the circle of radius 5 around the origin was tested
C27_Witness ==
    /\ probe.op = "check_point_in_circle"
    /\ probe.point = <<3, 4>> /\ probe.center = Zero2 /\ probe.radius = 5
    /\ ~probe.ret

\* C28: the guard of main.py becomes alerted only in an update that brings
\* its alert_level to 100 or more by one of the fixed increments, 5 for a
\* player heard and 10 for a player seen: a guard whose alert_level was
\* below 90 is never alerted by one update (levels are in halves)
C28_AlertOnlyAtThreshold ==
    [][(sentry'.alerted /\ ~sentry.alerted) =>
          /\ sentry'.alert_level >= 200
          /\ sentry.alert_level >= 180
          /\ sentry'.alert_level - sentry.alert_level \in {10, 20}]_vars

\* a guard was alerted by a player it was shown
C28_Witness == sentry.alerted /\ sentry.alert_level >= 200 /\ intruder \in Intruders

\* C29: the alert_level of the guard of main.py stays within 0 .. 100 after
\* any sequence of updates, the updates of an alerted guard included
C29_AlertInRange == sentry.alert_level \in 0 .. 200

\* C30: the noise_level of a player is within 0 .. 100 after every update,
\* whatever it was told to do before: the Player of logic/player.py (in
\* 1/Grid units) and the Player of main.py (in halves)
C30_NoiseInRange ==
    /\ thief.noise_level \in 0 .. MaxNoise * Grid
    /\ intruder # Absent => intruder.noise_level \in 0 .. 2 * MaxNoise

\* the player of main.py ran until its noise level stood at 100
C30_Witness == intruder # Absent /\ intruder.is_running /\ intruder.noise_level = 2 * MaxNoise

\* the guard is on patrol, its wait is over and it is closer than 2 units to
\* its current waypoint
ArrivalTick(g) ==
    /\ g.state = "PATROLLING"
    /\ ~(g.wait_timer > 0)
    /\ Length(VSub(g.patrol_points[g.current_patrol_point + 1], g.position)) < ArriveDist

\* C31: in every state of a guard the patrol route is not empty and the
\* waypoint index is within it; the index changes only in an update that
\* finds the guard arrived (wait over, closer than 2 to the waypoint), and
\* such an update sets it to (index + 1) mod route length and the wait timer
\* to 2.0 seconds
C31_WaypointIndex ==
    /\ [](/\ Len(guard.patrol_points) > 0
          /\ guard.current_patrol_point \in 0 .. Len(guard.patrol_points) - 1)
    /\ [][/\ guard'.current_patrol_point # guard.current_patrol_point => ArrivalTick(guard)
          /\ (ArrivalTick(guard) /\ player' = player) =>
                /\ guard'.current_patrol_point
                      = (guard.current_patrol_point + 1) % Len(guard.patrol_points)
                /\ guard'.wait_timer = patrol_wait_time]_vars

\* the guard arrived at the second waypoint and turned back to the first
C31_Witness ==
    /\ guard.current_patrol_point = 0
    /\ guard.wait_timer = patrol_wait_time
    /\ Length(VSub(guard.patrol_points[2], guard.position)) < ArriveDist

\* the guards one call guard.update(dt, player, walls) can leave behind
GuardCalls(g) ==
    UNION { { update(g, dt, hasPlayer, p, Walls, rnd).done : rnd \in Rnds(g.state, hasPlayer) } :
              dt \in Dts, hasPlayer \in BOOLEAN, p \in PlayerStates }

\* the guards that sequences of update calls lead to: those seen so far, and
\* the ones among them whose calls have not been followed yet
RECURSIVE Reached(_, _)
Reached(seen, frontier) ==
    IF frontier = {} THEN seen
    ELSE CHOOSE all \in { Reached(seen \cup next, next) :
                            next \in { UNION { GuardCalls(g) : g \in frontier } \ seen } } : TRUE

\* C32: each of the five states PATROLLING, SUSPICIOUS, INVESTIGATING, ALERTED
\* and SEARCHING is the state of a new guard after some sequence of update
\* calls, with or without a player
C32_AllStatesReachable ==
    last = NoCall =>
        \E guards \in { Reached({guard}, {guard}) } :
            \A state \in GuardStates : \E g \in guards : g.state = state

\* C33: the position recorded at a detection is a snapshot: while the player
\* moves in its own updates and no call of the guard intervenes, the value of
\* the guard's alert_position stays what it was
C33_AlertPositionSnapshot ==
    [][(guard' = guard /\ player' # player /\ guard.alert_position # NoPos) =>
          PosValue(guard'.alert_position, player') = PosValue(guard.alert_position, player)]_vars

\* an alerted guard's rect meets the player's in the game
Caught(gm) ==
    \E i \in 1 .. Len(gm.guards) :
        gm.guards[i].alerted /\ collide_rect(gm.guards[i], main_size, gm.player, main_size)

\* C34: a PLAYING tick in which an alerted guard's rect collides with the
\* player ends in the state GAME_OVER, also when the player collects the
\* last loot item in the same tick
C34_CaughtIsGameOver ==
    game.state = "PLAYING" =>
      \A dt \in GameDts, keys \in EndKeys, hover \in Hovers :
        ExactTick(game, dt, keys) =>
          LET after == game_update(game, dt, keys, hover)
          IN  Caught(after) => after.state = "GAME_OVER"

\* C35: an ALERTED guard is still ALERTED after every update that is given
\* a player, wherever the player is and whether or not it is detected; an
\* update that leaves ALERTED is one without a player
C35_AlertedAbsorbing ==
    \A t \in Trials :
        guard.state = "ALERTED" =>
            /\ t.hasPlayer => t.u.done.state = "ALERTED"
            /\ t.u.done.state # "ALERTED" => (~t.hasPlayer /\ t.u.done.state = "SEARCHING")

\* an ALERTED guard was updated with a player beyond its view distance and
\* is still ALERTED
C35_Witness ==
    /\ last.op = "update" /\ last.pre = "ALERTED" /\ last.hasPlayer /\ ~last.detected
    /\ Length(VSub(player.position, guard.position)) > view_distance
    /\ guard.state = "ALERTED"

\* C36: in every state a new guard reaches through update and alert calls
\* current_speed is walk_speed or run_speed, walk_speed when the guard is
\* PATROLLING and run_speed when it is ALERTED
C36_SpeedFollowsState ==
    /\ guard.current_speed \in {walk_speed, run_speed}
    /\ guard.state = "PATROLLING" => guard.current_speed = walk_speed
    /\ guard.state = "ALERTED" => guard.current_speed = run_speed

\* a guard that had been alerted finished its search and patrols again
C36_Witness ==
    /\ last.op = "update" /\ last.pre = "SEARCHING"
    /\ guard.state = "PATROLLING" /\ guard.current_speed = walk_speed

\* C37: outside play (MENU, PAUSED, GAME_OVER, VICTORY) Game.update leaves
\* the game time, the score, the player, every guard and every loot item as
\* they are, and the state changes by key events only: Enter leads from MENU
\* to PLAYING with score and time 0 and the level created anew, and from
\* GAME_OVER and VICTORY to MENU; Escape leads from PLAYING to PAUSED and back
C37_IdleOutsidePlay ==
    /\ [](game.state # "PLAYING" =>
            \A dt \in GameDts, keys \in EndKeys \cup KeySets, hover \in Hovers :
                game_update(game, dt, keys, hover) = game)
    /\ [][/\ (game.state = "MENU" /\ game'.state # "MENU") => game' = start_game(game)
          /\ (game.state = "PAUSED" /\ game'.state # "PAUSED") =>
                game' = [game EXCEPT !.state = "PLAYING"]
          /\ (game.state \in {"GAME_OVER", "VICTORY"} /\ game'.state # game.state) =>
                game' = [game EXCEPT !.state = "MENU"]
          /\ (game.state = "PLAYING" /\ game'.state = "PAUSED") =>
                game' = [game EXCEPT !.state = "PAUSED"]
          /\ (game.state # "PLAYING" /\ game'.state = game.state) =>
                game' \in {game, [game EXCEPT !.running = FALSE]}
          /\ start_game(game).score = 0 /\ start_game(game).time = 0
          /\ start_game(game).player = NewMainPlayer(100, 100)
          /\ Len(start_game(game).guards) = 2 /\ Len(start_game(game).loots) = 5]_vars

\* a game that ended was taken back to the menu by Enter, its time and score
\* as the last tick of play left them
C37_Witness ==
    /\ game.state = "MENU"
    /\ game.time > EndgameStart
    /\ game.score > 0
    /\ game.running

\* the sum of the values of the items in a set of item numbers
RECURSIVE LiveValue(_, _)
LiveValue(m, live) ==
    IF live = {} THEN 0
    ELSE LET i == CHOOSE n \in live : TRUE
         IN  m.items[i].value + LiveValue(m, live \ {i})

LootBalanced(m) == m.collected_value + LiveValue(m, m.loot_sprites) = m.total_value

CollectedInRange(m) == 0 <= m.collected_value /\ m.collected_value <= m.total_value

ProgressInRange(m) ==
    LET progress == get_collection_progress(m)
    IN  /\ ~progress.negative
        /\ FGe(FromInt(100, 0), progress.magnitude)

\* collecting any item that is not in loot_sprites returns 0 and leaves the
\* manager as it is
AbsentCollectIsNoOp(m) ==
    \A loot_item \in (0..Len(m.items)) \ m.loot_sprites, foreign_value \in ForeignValues :
        collect_loot(m, loot_item, foreign_value) = [manager |-> m, ret |-> 0]

NoNegativeValue(m) == \A i \in 1..Len(m.items) : m.items[i].value >= 0

C39_FiresAgainAfterCooldown ==
    (ship # Absent /\ ship.shots > 0 /\ ship.since >= ship.obj.fire_rate) =>
        fire_primary(ship.obj).ret

====
